------------------------------ MODULE PagesProofs ------------------------------
(***************************************************************************)
(* Proofs about the console page: its routes, refreshing, drawer and form, *)
(* for any loaders, nodes, filters and places and any bounds.              *)
(***************************************************************************)
EXTENDS MCPages, Integers, TLAPS

\* What a step of one part of the page leaves alone: the others.
LEMMA OnePartMoves ==
  ASSUME [PagesNext]_<<part, routesVars, fVars, dVars, eVars>>
  PROVE  /\ [RoutesNext]_routesVars
         /\ [F!RefreshNext]_(F!refreshVars)
         /\ [D!DrawerNext]_(D!drawerVars)
         /\ [E!EnrollNext]_(E!enrollVars)
BY DEF PagesNext, routesVars, fVars, dVars, eVars, F!refreshVars, D!drawerVars, E!enrollVars

-----------------------------------------------------------------------------
(* ConsoleRoutes.                                                          *)

Parameters == {"mode", "filter", "conn", "proto", "section", "search"}

\* What the parameters are of which a tab lets something be seen.
Of(tab) == CASE tab = "activity" -> {"mode", "filter", "search"}
             [] tab = "honeypots" -> {"conn", "proto", "search"}
             [] tab = "settings" -> {"section"}
             [] OTHER -> {}

\* The parameters of an address: of what the tab shows, what is not as in a page
\* just loaded.
LEMMA GivenParams ==
  ASSUME NEW v \in View
  PROVE  /\ DOMAIN Params(v) = {p \in Of(v.tab) : v[p] # Fresh[p]}
         /\ \A p \in DOMAIN Params(v) : Params(v)[p] = v[p]
         /\ Of(v.tab) \subseteq Parameters
<1>1. Of(v.tab) \subseteq Parameters /\ DOMAIN v = Parameters \cup {"tab"}
  BY DEF Of, Parameters, View
<1> DEFINE given == {p \in DOMAIN v \ {"tab"} : v[p] # Fresh[p]} \intersect Of(v.tab)
<1>2. Params(v) = [p \in given |-> v[p]]
  BY DEF Params, Of
<1>3. given = {p \in Of(v.tab) : v[p] # Fresh[p]}
  BY <1>1 DEF Parameters
<1> QED  BY <1>1, <1>2, <1>3

LEMMA NoParams == DOMAIN <<>> = {}
OBVIOUS

\* A page just loaded at an address with nothing behind its # reads the view it was
\* written for, as far as the address holds it.
LEMMA RouteReads ==
  ASSUME NEW v \in View
  PROVE  LET w == Route(Fresh, Address(v))
         IN w.tab = v.tab /\ \A p \in Of(v.tab) : w[p] = v[p]
<1> DEFINE u == Address(v)
           w == Route(Fresh, u)
           Param(p, absent) == IF p \in DOMAIN u.params THEN u.params[p] ELSE absent
<1>1. u.path = v.tab /\ u.hash = "none" /\ u.params = Params(v) /\ v.tab \in Tab
  BY DEF Address, View
<1>2. w = [tab |-> v.tab, mode |-> Param("mode", Fresh.mode), filter |-> Param("filter", "all"),
           conn |-> Param("conn", Fresh.conn), proto |-> Param("proto", Fresh.proto),
           section |-> Param("section", Fresh.section), search |-> Param("search", Fresh.search)]
  BY <1>1 DEF Route, At, Tab
<1>3. \A p \in Of(v.tab) : Param(p, Fresh[p]) = v[p]
  BY <1>1, GivenParams
<1>4. /\ Fresh.mode = Fresh["mode"] /\ "all" = Fresh["filter"] /\ Fresh.conn = Fresh["conn"]
      /\ Fresh.proto = Fresh["proto"] /\ Fresh.section = Fresh["section"] /\ Fresh.search = Fresh["search"]
  BY DEF Fresh
<1>5. \A p \in Parameters : w[p] = Param(p, Fresh[p])
  <2> HIDE DEF u
  <2>1. /\ w["mode"] = Param("mode", Fresh["mode"]) /\ w["filter"] = Param("filter", Fresh["filter"])
        /\ w["conn"] = Param("conn", Fresh["conn"]) /\ w["proto"] = Param("proto", Fresh["proto"])
        /\ w["section"] = Param("section", Fresh["section"]) /\ w["search"] = Param("search", Fresh["search"])
    BY <1>2, <1>4
  <2> HIDE DEF w
  <2> QED  BY <2>1 DEF Parameters
<1>6. w.tab = v.tab
  BY <1>2
<1>7. \A p \in Of(v.tab) : w[p] = v[p]
  <2> HIDE DEF w, Param
  <2> QED  BY <1>3, <1>5, GivenParams
<1> QED  BY <1>6, <1>7

LEMMA ListsAlike ==
  ASSUME NEW v, NEW w, v.tab # "overview", w.tab = v.tab, \A p \in Of(v.tab) : w[p] = v[p]
  PROVE  Lists(w) = Lists(v)
<1> DEFINE S == IF v.tab = "settings" THEN {} ELSE Of(v.tab)
<1>1. Lists(w) = [p \in S |-> w[p]] /\ Lists(v) = [p \in S |-> v[p]]
  BY DEF Lists, Of
<1>2. \A p \in S : w[p] = v[p]
  OBVIOUS
<1> QED  BY <1>1, <1>2

LEMMA FreshView == Fresh \in View
BY DEF Fresh, View, Tab

\* An address is a record, with the parameters of a view or none.
LEMMA AddressIsRecord ==
  ASSUME NEW u \in Addresses
  PROVE  /\ u = [path |-> u.path, hash |-> u.hash, params |-> u.params]
         /\ (\E w \in View : u.params = Params(w)) \/ u.params = <<>>
<1>1. PICK p \in Plain, h \in Hash \cup {"none"} : u = [path |-> p.path, hash |-> h, params |-> p.params]
  BY DEF Addresses
<1>2. (\E w \in View : p.params = Params(w)) \/ p.params = <<>>
  BY DEF Plain, Address
<1> QED  BY <1>1, <1>2

\* What the page writes is an address.
LEMMA PlainAddress ==
  ASSUME NEW u \in Plain
  PROVE  u \in Addresses /\ u = [path |-> u.path, hash |-> "none", params |-> u.params]
<1>1. u = [path |-> u.path, hash |-> "none", params |-> u.params]
  BY DEF Plain, Address
<1> QED  BY <1>1 DEF Addresses

\* Whatever address it is, a view stays a view.
LEMMA RouteView ==
  ASSUME NEW v \in View, NEW u \in Addresses
  PROVE  Route(v, u) \in View
<1>1. CASE At(u, {"node"})
  BY <1>1 DEF Route, View, Tab
<1>2. CASE ~At(u, {"node"})
  <2> DEFINE Param(p, absent) == IF p \in DOMAIN u.params THEN u.params[p] ELSE absent
             tab == IF At(u, {"honeypots", "nodes"}) THEN "honeypots"
                    ELSE IF At(u, {"activity", "threats", "sessions"}) THEN "activity"
                    ELSE IF At(u, {"settings"}) THEN "settings" ELSE "overview"
             sessions == tab = "activity" /\ ~At(u, {"activity", "threats"})
             mode == IF sessions THEN "sessions" ELSE Param("mode", v.mode)
  <2>1. Route(v, u) = [tab |-> tab, mode |-> mode, filter |-> Param("filter", "all"),
           conn |-> Param("conn", v.conn), proto |-> Param("proto", v.proto),
           section |-> Param("section", v.section), search |-> Param("search", v.search)]
    BY <1>2 DEF Route
  <2>2. /\ tab \in Tab
        /\ \A p \in Parameters : \E w \in View : \A absent : Param(p, absent) \in {absent, w[p]}
    <3>1. tab \in Tab
      BY DEF Tab
    <3>2. CASE \E w \in View : u.params = Params(w)
      <4>1. PICK w \in View : u.params = Params(w)
        BY <3>2
      <4>2. \A p : \A absent : Param(p, absent) \in {absent, w[p]}
        BY <4>1, GivenParams
      <4> QED  BY <3>1, <4>2
    <3>3. CASE u.params = <<>>
      <4>1. \A p : \A absent : Param(p, absent) = absent
        BY <3>3, NoParams
      <4> QED  BY <3>1, <4>1, FreshView
    <3> QED  BY <3>2, <3>3, AddressIsRecord
  <2> HIDE DEF Param
  <2>3. \A w \in View : /\ w["mode"] \in {"events", "sessions"} /\ w["filter"] \in Filter \cup {"all"}
                        /\ w["conn"] \in Conn \cup {"all"} /\ w["proto"] \in Proto \cup {"all"}
                        /\ w["section"] \in Section \cup {"integrations"} /\ w["search"] \in Query \cup {""}
    BY DEF View
  <2>4. /\ v.mode \in {"events", "sessions"}
        /\ v.conn \in Conn \cup {"all"} /\ v.proto \in Proto \cup {"all"}
        /\ v.section \in Section \cup {"integrations"} /\ v.search \in Query \cup {""}
    BY DEF View
  <2>5. /\ Param("mode", v.mode) \in {"events", "sessions"}
        /\ Param("filter", "all") \in Filter \cup {"all"}
        /\ Param("conn", v.conn) \in Conn \cup {"all"}
        /\ Param("proto", v.proto) \in Proto \cup {"all"}
        /\ Param("section", v.section) \in Section \cup {"integrations"}
        /\ Param("search", v.search) \in Query \cup {""}
    <3>1. "mode" \in Parameters /\ "filter" \in Parameters /\ "conn" \in Parameters
          /\ "proto" \in Parameters /\ "section" \in Parameters /\ "search" \in Parameters
      BY DEF Parameters
    <3>2. Param("mode", v.mode) \in {"events", "sessions"}
      BY <2>2, <2>3, <2>4, <3>1
    <3>3. Param("filter", "all") \in Filter \cup {"all"}
      BY <2>2, <2>3, <3>1
    <3>4. Param("conn", v.conn) \in Conn \cup {"all"}
      BY <2>2, <2>3, <2>4, <3>1
    <3>5. Param("proto", v.proto) \in Proto \cup {"all"}
      BY <2>2, <2>3, <2>4, <3>1
    <3>6. Param("section", v.section) \in Section \cup {"integrations"}
      BY <2>2, <2>3, <2>4, <3>1
    <3>7. Param("search", v.search) \in Query \cup {""}
      BY <2>2, <2>3, <2>4, <3>1
    <3> QED  BY <3>2, <3>3, <3>4, <3>5, <3>6, <3>7
  <2>6. mode \in {"events", "sessions"}
    BY <2>5
  <2>7. tab \in Tab
    BY <2>2
  <2> HIDE DEF tab, sessions, mode
  <2>8. \A t \in Tab, m \in {"events", "sessions"}, f \in Filter \cup {"all"}, c \in Conn \cup {"all"},
          p \in Proto \cup {"all"}, s \in Section \cup {"integrations"}, q \in Query \cup {""} :
          [tab |-> t, mode |-> m, filter |-> f, conn |-> c, proto |-> p, section |-> s, search |-> q] \in View
    BY DEF View
  <2>9. [tab |-> tab, mode |-> mode, filter |-> Param("filter", "all"),
         conn |-> Param("conn", v.conn), proto |-> Param("proto", v.proto),
         section |-> Param("section", v.section), search |-> Param("search", v.search)] \in View
    BY <2>5, <2>6, <2>7, <2>8
  <2> QED  BY <2>1, <2>9, Zenon
<1> QED  BY <1>1, <1>2

\* Once setTab has written the address, it is that of the view, but for what was
\* behind a # before.
RoutesInv == RoutesTypeOK /\ (last = "push" => [url EXCEPT !.hash = "none"] = Address(view))

Pressed == [filter: Filter \cup {"all"}, conn: Conn \cup {"all"}, proto: Proto \cup {"all"}]

\* The address the drawer leaves behind is that of the tab without filters.
LEMMA BareAddress == [path |-> "honeypots", hash |-> "none", params |-> <<>>] \in Addresses
<1> DEFINE v == [Fresh EXCEPT !.tab = "honeypots"]
<1>1. v \in View /\ v.tab = "honeypots"
  BY FreshView DEF View, Tab
<1>2. Params(v) = <<>>
  <2>1. DOMAIN Params(v) = {p \in Of(v.tab) : v[p] # Fresh[p]}
    BY <1>1, GivenParams
  <2>2. \A p \in Of(v.tab) : v[p] = Fresh[p]
    BY <1>1, FreshView DEF Of, View
  <2>3. DOMAIN Params(v) = {}
    BY <2>1, <2>2
  <2>4. Params(v) = [p \in DOMAIN Params(v) |-> Params(v)[p]]
    BY DEF Params
  <2> HIDE DEF v
  <2> QED  BY <2>3, <2>4
<1>3. Address(v) = [path |-> "honeypots", hash |-> "none", params |-> <<>>]
  BY <1>1, <1>2 DEF Address
<1> HIDE DEF v
<1>4. Address(v) \in Plain
  BY <1>1 DEF Plain
<1> QED  BY <1>3, <1>4, PlainAddress

LEMMA RoutesStart == RoutesInit => RoutesInv
<1> SUFFICES ASSUME RoutesInit PROVE RoutesInv
  OBVIOUS
<1>1. PICK u \in Addresses : /\ url = u /\ view = Route(Fresh, u) /\ last = "route"
                             /\ pressed = [filter |-> Route(Fresh, u).filter, conn |-> "all", proto |-> "all"]
  BY DEF RoutesInit
<1>2. view \in View
  BY <1>1, FreshView, RouteView
<1>3. pressed \in Pressed
  <2>1. Route(Fresh, u).filter \in Filter \cup {"all"}
    BY <1>1, <1>2 DEF View
  <2> QED  BY <1>1, <2>1 DEF Pressed
<1> QED  BY <1>1, <1>2, <1>3 DEF RoutesInv, RoutesTypeOK, Pressed

LEMMA RoutesStep == RoutesInv /\ [RoutesNext]_routesVars => RoutesInv'
<1> SUFFICES ASSUME RoutesInv, [RoutesNext]_routesVars PROVE RoutesInv'
  OBVIOUS
<1>0. view \in View /\ url \in Addresses /\ pressed \in Pressed /\ last \in {"push", "route", "type", "drawer"}
      /\ (last = "push" => [url EXCEPT !.hash = "none"] = Address(view))
  BY DEF RoutesInv, RoutesTypeOK, Pressed
<1>1. ASSUME NEW v \in View, SetTab(v), pressed' \in Pressed PROVE RoutesInv'
  <2>1. Address(v) \in Addresses /\ [Address(v) EXCEPT !.hash = "none"] = Address(v)
    <3>1. Address(v) \in Plain
      BY <1>1 DEF Plain
    <3>2. Address(v) \in Addresses
      BY <3>1, PlainAddress
    <3> QED  BY <3>2 DEF Address
  <2>2. view' = v /\ last' = "push" /\ [url' EXCEPT !.hash = "none"] = Address(v) /\ url' \in Addresses
    BY <1>0, <1>1, <2>1 DEF SetTab
  <2> QED  BY <1>1, <2>2 DEF RoutesInv, RoutesTypeOK, Pressed
<1>2. ASSUME NEW t \in Tab, Visit(t) PROVE RoutesInv'
  <2>1. [view EXCEPT !.tab = t] \in View
    BY <1>0 DEF View
  <2> QED  BY <1>0, <1>1, <1>2, <2>1 DEF Visit
<1>3. ASSUME NEW c \in Conn \cup {"all"}, NodeFilter("conn", c) PROVE RoutesInv'
  <2> DEFINE to == IF pressed["conn"] = c THEN "all" ELSE c
  <2>1. to \in Conn \cup {"all"}
    OBVIOUS
  <2>2. SetTab([view EXCEPT !["conn"] = to, !.tab = "honeypots"]) /\ pressed' = [pressed EXCEPT !["conn"] = to]
    BY <1>3 DEF NodeFilter
  <2> HIDE DEF to
  <2>3. [view EXCEPT !["conn"] = to, !.tab = "honeypots"] \in View /\ pressed' \in Pressed
    BY <1>0, <2>1, <2>2 DEF View, Pressed, Tab
  <2> QED  BY <1>1, <2>2, <2>3
<1>4. ASSUME NEW c \in Proto \cup {"all"}, NodeFilter("proto", c) PROVE RoutesInv'
  <2> DEFINE to == IF pressed["proto"] = c THEN "all" ELSE c
  <2>1. to \in Proto \cup {"all"}
    OBVIOUS
  <2>2. SetTab([view EXCEPT !["proto"] = to, !.tab = "honeypots"]) /\ pressed' = [pressed EXCEPT !["proto"] = to]
    BY <1>4 DEF NodeFilter
  <2> HIDE DEF to
  <2>3. [view EXCEPT !["proto"] = to, !.tab = "honeypots"] \in View /\ pressed' \in Pressed
    BY <1>0, <2>1, <2>2 DEF View, Pressed, Tab
  <2> QED  BY <1>1, <2>2, <2>3
<1>5. CASE Clear
  <2>1. [view EXCEPT !.tab = "activity", !.filter = "all", !.search = ""] \in View
        /\ [pressed EXCEPT !.filter = "all"] \in Pressed
    BY <1>0 DEF View, Tab, Pressed
  <2> QED  BY <1>1, <1>5, <2>1 DEF Clear
<1>6. ASSUME NEW f \in Filter, \/ EventFilter(f)
                               \/ f = "flag" /\ ReviewFlags
                               \/ f = "flag" /\ FlagsCard PROVE RoutesInv'
  <2>1. [view EXCEPT !.tab = "activity", !.filter = f] \in View /\ [pressed EXCEPT !.filter = f] \in Pressed
    BY <1>0 DEF View, Tab, Pressed
  <2>2. SetTab([view EXCEPT !.tab = "activity", !.filter = f])
        /\ pressed' \in {pressed, [pressed EXCEPT !.filter = f]}
    BY <1>6 DEF EventFilter, ReviewFlags, FlagsCard
  <2> QED  BY <1>0, <1>1, <2>1, <2>2
<1>7. ASSUME NEW m \in {"events", "sessions"}, Mode(m) PROVE RoutesInv'
  <2>1. [view EXCEPT !.tab = "activity", !.mode = m] \in View
    BY <1>0 DEF View, Tab
  <2> QED  BY <1>0, <1>1, <1>7, <2>1 DEF Mode
<1>8. ASSUME NEW s \in Section \cup {"integrations"}, ShowSection(s) PROVE RoutesInv'
  <2>1. [view EXCEPT !.tab = "settings", !.section = s] \in View
    BY <1>0 DEF View, Tab
  <2> QED  BY <1>0, <1>1, <1>8, <2>1 DEF ShowSection
<1>9. ASSUME NEW q \in Query, FilterBySession(q) PROVE RoutesInv'
  <2>1. [view EXCEPT !.tab = "activity", !.search = q] \in View
    BY <1>0 DEF View, Tab
  <2> QED  BY <1>0, <1>1, <1>9, <2>1 DEF FilterBySession
<1>10. ASSUME NEW q \in Query \cup {""}, Type(q) PROVE RoutesInv'
  <2>1. [view EXCEPT !.search = q] \in View
    BY <1>0 DEF View
  <2> QED  BY <1>0, <1>10, <2>1 DEF Type, RoutesInv, RoutesTypeOK, Pressed
<1>11. CASE Enter
  BY <1>0, <1>1, <1>11 DEF Enter
<1>12. CASE Drawer
  <2>1. url' \in Addresses
    <3>1. PICK p \in {"node", "honeypots"} : url' = [path |-> p, hash |-> "none", params |-> <<>>]
      BY <1>12 DEF Drawer
    <3>2. [path |-> "node", hash |-> "none", params |-> <<>>] \in Addresses
      <4>1. [path |-> "node", hash |-> "none", params |-> <<>>] \in Plain
        BY DEF Plain
      <4> QED  BY <4>1, PlainAddress
    <3> QED  BY <3>1, <3>2, BareAddress
  <2> QED  BY <1>0, <1>12, <2>1 DEF Drawer, RoutesInv, RoutesTypeOK, Pressed
<1>13. ASSUME NEW u \in Addresses, Back(u) PROVE RoutesInv'
  <2>1. Route(view, u) \in View
    BY <1>0, RouteView
  <2>2. pressed' \in Pressed
    <3>1. Route(view, u).filter \in Filter \cup {"all"}
      BY <2>1 DEF View
    <3>2. pressed' = pressed \/ pressed' = [pressed EXCEPT !.filter = Route(view, u).filter]
      BY <1>13 DEF Back
    <3> QED  BY <1>0, <3>1, <3>2 DEF Pressed
  <2> QED  BY <1>13, <2>1, <2>2 DEF Back, RoutesInv, RoutesTypeOK, Pressed
<1>14. CASE UNCHANGED routesVars
  BY <1>0, <1>14 DEF routesVars, RoutesInv, RoutesTypeOK, Pressed
<1>15. "flag" \in Filter
  BY PagesAssumption DEF ConsoleRoutesAssumption
<1> QED
  BY <1>2, <1>3, <1>4, <1>5, <1>6, <1>7, <1>8, <1>9, <1>10, <1>11, <1>12, <1>13, <1>14, <1>15 DEF RoutesNext

\* Whatever way led to a view (central/ui.ts, setTab and handleRoute), loading the
\* page anew at the address setTab wrote for it, nothing behind its #, shows the same
\* tab and, but for the overview, the same list.
THEOREM ReloadAlwaysKeepsTheView == PagesSpec => []ReloadKeepsTheView
<1>1. PagesInit => RoutesInv
  BY RoutesStart DEF PagesInit
<1>2. RoutesInv /\ [PagesNext]_<<part, routesVars, fVars, dVars, eVars>> => RoutesInv'
  BY OnePartMoves, RoutesStep
<1>3. RoutesInv => ReloadKeepsTheView
  <2> SUFFICES ASSUME RoutesInv, last = "push", url.hash = "none"
               PROVE  /\ Route(Fresh, url).tab = view.tab
                      /\ view.tab # "overview" => Lists(Route(Fresh, url)) = Lists(view)
    BY DEF RoutesInv, ReloadKeepsTheView, ReloadShowsTheSame
  <2>1. view \in View /\ url \in Addresses /\ [url EXCEPT !.hash = "none"] = Address(view)
    BY DEF RoutesInv, RoutesTypeOK
  <2>2. url = Address(view)
    <3>1. url = [path |-> url.path, hash |-> url.hash, params |-> url.params]
      BY <2>1, AddressIsRecord
    <3>2. [url EXCEPT !.hash = "none"] = url
      BY <3>1
    <3> QED  BY <2>1, <3>2
  <2>3. Route(Fresh, url).tab = view.tab /\ \A p \in Of(view.tab) : Route(Fresh, url)[p] = view[p]
    BY <2>1, <2>2, RouteReads
  <2> QED  BY <2>3, ListsAlike
<1> QED  BY <1>1, <1>2, <1>3, PTL DEF PagesSpec

-----------------------------------------------------------------------------
(* ConsoleRefresh.                                                         *)

\* The first answer shown and the flags shown are there from the same step on.
RefreshInv ==
  /\ F!RefreshTypeOK
  /\ shown["stats"] = F!Nothing <=> first = F!Nothing
  /\ F!RisesAreAnnounced

LEMMA RefreshConstants ==
  /\ "stats" \in Loader /\ 0 \in F!Value /\ F!Nothing \notin F!Value
  /\ \A v \in F!Value : v \in Int
  /\ F!Nothing \in Int /\ 1 \in F!Round
BY PagesAssumption DEF F!ConsoleRefreshAssumption, F!Value, F!Nothing, F!Round

\* A request on its way, answered with a content or not at all.
Request == {F!Idle, F!Sent, F!Failed} \cup {F!Answered(v) : v \in F!Value}

LEMMA Requests ==
  /\ F!Idle \in Request /\ F!Sent \in Request /\ F!Failed \in Request
  /\ \A v \in F!Value : F!Answered(v) \in Request
  /\ \A x \in Request : x.is = "answered" => x.got \in F!Value
<1>1. /\ F!Idle \in Request /\ F!Sent \in Request /\ F!Failed \in Request
      /\ \A v \in F!Value : F!Answered(v) \in Request
  BY DEF Request
<1>2. ASSUME NEW x \in Request, x.is = "answered" PROVE x.got \in F!Value
  <2>1. CASE x \in {F!Idle, F!Sent, F!Failed}
    BY <1>2, <2>1 DEF F!Idle, F!Sent, F!Failed
  <2>2. CASE \E v \in F!Value : x = F!Answered(v)
    BY <2>2 DEF F!Answered
  <2> QED  BY <2>1, <2>2 DEF Request
<1> QED  BY <1>1, <1>2

LEMMA RefreshStart == F!RefreshInit => RefreshInv
<1> SUFFICES ASSUME F!RefreshInit PROVE RefreshInv
  OBVIOUS
<1>1. call \in [F!Round -> [Loader -> Request]]
  BY Requests DEF F!RefreshInit
<1>2. F!RefreshTypeOK
  BY <1>1, RefreshConstants DEF F!RefreshInit, F!RefreshTypeOK, Request
<1>3. shown["stats"] = F!Nothing /\ first = F!Nothing
  BY RefreshConstants DEF F!RefreshInit
<1> QED  BY <1>2, <1>3 DEF RefreshInv, F!RisesAreAnnounced

\* One request of one round goes on.
LEMMA CallSteps ==
  ASSUME call \in [F!Round -> [Loader -> Request]],
         NEW r \in F!Round, NEW l \in Loader, NEW x \in Request,
         call' = [call EXCEPT ![r][l] = x]
  PROVE  call' \in [F!Round -> [Loader -> Request]]
OBVIOUS

LEMMA RefreshStep == RefreshInv /\ [F!RefreshNext]_(F!refreshVars) => RefreshInv'
<1> SUFFICES ASSUME RefreshInv, [F!RefreshNext]_(F!refreshVars) PROVE RefreshInv'
  OBVIOUS
<1>0. /\ doc \in [Loader -> F!Value] /\ shown \in [Loader -> F!Value \cup {F!Nothing}]
      /\ call \in [F!Round -> [Loader -> Request]] /\ timer \in BOOLEAN
      /\ first \in F!Value \cup {F!Nothing} /\ alerted \in Nat
      /\ shown["stats"] = F!Nothing <=> first = F!Nothing
      /\ first # F!Nothing => shown["stats"] <= first + alerted
  BY DEF RefreshInv, F!RefreshTypeOK, F!RisesAreAnnounced, Request
<1>1. ASSUME doc' \in [Loader -> F!Value], call' \in [F!Round -> [Loader -> Request]],
             timer' \in BOOLEAN, UNCHANGED <<first, alerted>>,
             shown' \in [Loader -> F!Value \cup {F!Nothing}], shown'["stats"] = shown["stats"]
      PROVE  RefreshInv'
  BY <1>0, <1>1 DEF RefreshInv, F!RefreshTypeOK, F!RisesAreAnnounced, Request
<1>2. ASSUME NEW l \in Loader, F!Change(l) PROVE RefreshInv'
  <2>1. doc' \in [Loader -> F!Value] /\ UNCHANGED <<call, timer, first, alerted, shown>>
    BY <1>0, <1>2 DEF F!Change
  <2> QED  BY <1>0, <1>1, <2>1
<1>3. ASSUME NEW r \in F!Round, F!FetchAll(r) PROVE RefreshInv'
  <2>1. call' \in [F!Round -> [Loader -> Request]] /\ UNCHANGED <<doc, timer, first, alerted, shown>>
    BY <1>0, <1>3, Requests DEF F!FetchAll
  <2> QED  BY <1>0, <1>1, <2>1
<1>4. CASE F!SetRate
  BY <1>0, <1>1, <1>4 DEF F!SetRate
<1>5. ASSUME NEW r \in F!Round, NEW l \in Loader, F!Serve(r, l) \/ F!Lose(r, l) PROVE RefreshInv'
  <2>1. /\ call' \in [F!Round -> [Loader -> Request]]
        /\ UNCHANGED <<doc, timer, first, alerted, shown>>
    <3>1. doc[l] \in F!Value
      BY <1>0
    <3>2. CASE F!Serve(r, l)
      BY <1>0, <3>1, <3>2, Requests, CallSteps DEF F!Serve
    <3>3. CASE F!Lose(r, l)
      BY <1>0, <3>3, Requests, CallSteps DEF F!Lose
    <3> QED  BY <1>5, <3>2, <3>3
  <2> QED  BY <1>0, <1>1, <2>1
<1>6. ASSUME NEW r \in F!Round, NEW l \in Loader, F!Take(r, l) PROVE RefreshInv'
  <2> DEFINE v == call[r][l].got
  <2>1. /\ v \in F!Value /\ v \in Int /\ v # F!Nothing
        /\ call' \in [F!Round -> [Loader -> Request]] /\ UNCHANGED <<doc, changes, timer>>
        /\ shown' = [shown EXCEPT ![l] = v]
    <3>1. call[r][l] \in Request /\ call[r][l].is = "answered"
      BY <1>0, <1>6 DEF F!Take
    <3>2. v \in F!Value
      BY <3>1, Requests
    <3>3. call' \in [F!Round -> [Loader -> Request]]
      BY <1>0, <1>6, Requests, CallSteps DEF F!Take
    <3> QED  BY <1>6, <3>2, <3>3, RefreshConstants DEF F!Take
  <2>2. /\ first' = IF l = "stats" /\ first = F!Nothing THEN v ELSE first
        /\ IF l = "stats" THEN F!Alert(v) ELSE UNCHANGED alerted
    BY <1>6 DEF F!Take
  <2> HIDE DEF v
  <2>3. shown' \in [Loader -> F!Value \cup {F!Nothing}]
    BY <1>0, <2>1
  <2>4. CASE l # "stats"
    <3>1. UNCHANGED <<first, alerted>> /\ shown'["stats"] = shown["stats"]
      BY <1>0, <2>1, <2>2, <2>4, RefreshConstants
    <3> QED  BY <1>0, <1>1, <2>1, <2>3, <3>1
  <2>5. CASE l = "stats"
    <3>1. shown'["stats"] = v /\ first' = (IF first = F!Nothing THEN v ELSE first)
      BY <1>0, <2>1, <2>2, <2>5, RefreshConstants
    <3>2. alerted' = IF shown["stats"] # F!Nothing /\ v > shown["stats"]
                     THEN alerted + (v - shown["stats"]) ELSE alerted
      BY <2>2, <2>5 DEF F!Alert
    <3>3. /\ first \in Int /\ shown["stats"] \in Int
          /\ first' \in F!Value /\ first' # F!Nothing
      BY <1>0, <2>1, <3>1, RefreshConstants
    <3>4. alerted' \in Nat /\ shown'["stats"] <= first' + alerted'
      BY <1>0, <2>1, <3>1, <3>2, <3>3
    <3> QED  BY <1>0, <2>1, <2>3, <3>1, <3>3, <3>4 DEF RefreshInv, F!RefreshTypeOK, F!RisesAreAnnounced, Request
  <2> QED  BY <2>4, <2>5
<1>7. ASSUME NEW r \in F!Round, NEW l \in Loader, F!TakeFailure(r, l) PROVE RefreshInv'
  <2>1. /\ call' \in [F!Round -> [Loader -> Request]] /\ UNCHANGED <<doc, timer, first, alerted>>
        /\ shown' = IF l = "me" THEN [shown EXCEPT ![l] = F!Nothing] ELSE shown
    BY <1>0, <1>7, Requests, CallSteps DEF F!TakeFailure
  <2>2. shown' \in [Loader -> F!Value \cup {F!Nothing}] /\ shown'["stats"] = shown["stats"]
    BY <1>0, <2>1, RefreshConstants
  <2> QED  BY <1>0, <1>1, <2>1, <2>2
<1>8. CASE UNCHANGED F!refreshVars
  BY <1>0, <1>1, <1>8 DEF F!refreshVars
<1> QED  BY <1>2, <1>3, <1>4, <1>5, <1>6, <1>7, <1>8 DEF F!RefreshNext, F!Tick, F!Refresh

\* However the answers of the rounds overtake one another (central/ui.ts,
\* fetchStats), no flag is counted on the page that was neither there at the first
\* answer nor announced by an alert.
THEOREM RisesAreAlwaysAnnounced == PagesSpec => []RisesAreAnnounced
<1>1. PagesInit => RefreshInv
  BY RefreshStart DEF PagesInit
<1>2. RefreshInv /\ [PagesNext]_<<part, routesVars, fVars, dVars, eVars>> => RefreshInv'
  BY OnePartMoves, RefreshStep
<1>3. RefreshInv => RisesAreAnnounced
  BY DEF RefreshInv, RisesAreAnnounced
<1> QED  BY <1>1, <1>2, <1>3, PTL DEF PagesSpec

-----------------------------------------------------------------------------
(* ConsoleDrawer.                                                          *)

DrawerInv == D!DrawerTypeOK /\ D!HeadingNamesPanels /\ D!AddressOpensDrawer

\* The requests of the drawer.
Asked == [do: {"open", "save", "configure", "refresh", "remove"}, node: Node,
          is: {"sent", "ok", "failed"}]

\* What becomes of the slot of a call: free, or a request of a node.
LEMMA SlotSteps ==
  ASSUME calls \in [D!Slot -> {D!NoCall} \cup Asked], NEW s \in D!Slot,
         \/ calls' = [calls EXCEPT ![s] = D!NoCall]
         \/ \E do \in {"open", "save", "configure", "refresh", "remove"}, n \in Node : D!Send(s, do, n)
  PROVE  calls' \in [D!Slot -> {D!NoCall} \cup Asked]
<1>1. CASE calls' = [calls EXCEPT ![s] = D!NoCall]
  BY <1>1
<1>2. CASE \E do \in {"open", "save", "configure", "refresh", "remove"}, n \in Node : D!Send(s, do, n)
  <2>1. PICK x \in Asked : calls' = [calls EXCEPT ![s] = x]
    BY <1>2 DEF D!Send, Asked
  <2> QED  BY <2>1
<1> QED  BY <1>1, <1>2

\* The nodes an address names: that of its path, if it has one.
LEMMA NamedNodes ==
  ASSUME NEW u \in D!Address
  PROVE  D!Named(u) \subseteq Node /\ (u.path # None => D!Named(u) # {})
BY DEF D!Address, D!Named

LEMMA DrawerStart == D!DrawerInit => DrawerInv
<1> SUFFICES ASSUME D!DrawerInit PROVE DrawerInv
  OBVIOUS
<1>1. /\ registered = Node /\ open = FALSE /\ heading = None /\ content = None /\ address \in D!Address
      /\ due = D!Named(address) /\ saved = None
      /\ calls \in [D!Slot -> {D!NoCall} \cup Asked]
  BY DEF D!DrawerInit
<1>2. D!DrawerTypeOK
  BY <1>1, NamedNodes DEF D!DrawerTypeOK, Asked
<1> QED  BY <1>1, <1>2, NamedNodes DEF DrawerInv, D!HeadingNamesPanels, D!AddressOpensDrawer

LEMMA DrawerStep == DrawerInv /\ [D!DrawerNext]_(D!drawerVars) => DrawerInv'
<1> SUFFICES ASSUME DrawerInv, [D!DrawerNext]_(D!drawerVars) PROVE DrawerInv'
  OBVIOUS
<1> USE DEF D!HeadingNamesPanels, D!AddressOpensDrawer
<1>0. /\ registered \subseteq Node /\ open \in BOOLEAN /\ saved \in Node \cup {None}
      /\ heading \in Node \cup {None} /\ content \in Node \cup {None} /\ address \in D!Address
      /\ due \subseteq Node /\ calls \in [D!Slot -> {D!NoCall} \cup Asked]
      /\ content # None => heading = (IF saved = None THEN content ELSE saved)
      /\ address.path # None => open \/ due # {}
  BY DEF DrawerInv, D!DrawerTypeOK, Asked
<1>1. ASSUME registered' \subseteq Node, open' \in BOOLEAN, saved' \in Node \cup {None},
             heading' \in Node \cup {None}, content' \in Node \cup {None}, address' \in D!Address,
             due' \subseteq Node, calls' \in [D!Slot -> {D!NoCall} \cup Asked],
             content' # None => heading' = (IF saved' = None THEN content' ELSE saved'),
             address'.path # None => open' \/ due' # {}
      PROVE  DrawerInv'
  BY <1>1 DEF DrawerInv, D!DrawerTypeOK, Asked
\* An opening, whatever asked for it.
<1>2. ASSUME NEW s \in D!Slot, NEW n \in Node, NEW a \in D!Address, D!Open(s, n, a),
             registered' \subseteq Node, due' \subseteq Node
      PROVE  DrawerInv'
  <2>1. calls' \in [D!Slot -> {D!NoCall} \cup Asked]
    BY <1>0, <1>2, SlotSteps DEF D!Open
  <2>2. open' = TRUE /\ heading' = None /\ content' = None /\ saved' = None /\ address' = a
    BY <1>2 DEF D!Open
  <2> QED  BY <1>1, <1>2, <2>1, <2>2
\* The node and the answer of a request under way.
<1>3. ASSUME NEW s \in D!Slot, calls[s].is \in {"sent", "ok", "failed"} PROVE calls[s] \in Asked /\ calls[s].node \in Node
  BY <1>0, <1>3 DEF D!NoCall, Asked
<1>4. ASSUME NEW s \in D!Slot, NEW n \in Node, D!Click(s, n) \/ D!RouteTimer(s, n) PROVE DrawerInv'
  <2>1. [D!Elsewhere EXCEPT !.path = n] \in D!Address
    BY DEF D!Elsewhere, D!Address
  <2> QED  BY <1>0, <1>2, <1>4, <2>1 DEF D!Click, D!RouteTimer
\* A drawer that is closed leaves an address whose path names a node.
<1>16. ASSUME D!CloseDrawer
       PROVE  address' \in D!Address /\ address'.path = None /\ open' = FALSE
  BY <1>0, <1>16 DEF D!CloseDrawer, D!Elsewhere, D!Address
<1>5. CASE D!Close
  BY <1>0, <1>1, <1>5, <1>16 DEF D!Close
<1>6. ASSUME NEW u \in D!Address, D!Back(u) PROVE DrawerInv'
  <2>1. D!Named(u) \subseteq Node /\ (u.path # None => D!Named(u) # {})
    BY NamedNodes
  <2> QED  BY <1>0, <1>1, <1>6, <2>1 DEF D!Back
<1>7. ASSUME NEW s \in D!Slot, NEW do \in {"save", "configure", "remove"}, D!Press(s, do) PROVE DrawerInv'
  <2>1. calls' \in [D!Slot -> {D!NoCall} \cup Asked]
    BY <1>0, <1>7, SlotSteps DEF D!Press
  <2> QED  BY <1>0, <1>1, <1>7, <2>1 DEF D!Press
<1>8. ASSUME NEW s \in D!Slot, D!Handle(s) PROVE DrawerInv'
  <2>1. PICK done \in BOOLEAN, ok \in BOOLEAN :
          /\ calls' = [calls EXCEPT ![s].is = IF ok THEN "ok" ELSE "failed"]
          /\ registered' = IF done /\ calls[s].do = "remove"
                           THEN registered \ {calls[s].node} ELSE registered
    BY <1>8 DEF D!Handle
  <2>2. calls[s] \in Asked
    BY <1>3, <1>8 DEF D!Handle
  <2>3. calls' \in [D!Slot -> {D!NoCall} \cup Asked]
    BY <1>0, <2>1, <2>2 DEF Asked
  <2> QED  BY <1>0, <1>1, <1>8, <2>1, <2>3 DEF D!Handle
<1>9. ASSUME NEW s \in D!Slot, D!Opened(s) PROVE DrawerInv'
  <2>1. calls' \in [D!Slot -> {D!NoCall} \cup Asked] /\ calls[s].node \in Node
    BY <1>0, <1>3, <1>9, SlotSteps DEF D!Opened
  <2> QED  BY <1>0, <1>1, <1>9, <2>1 DEF D!Opened
<1>10. ASSUME NEW s \in D!Slot, D!Saved(s) PROVE DrawerInv'
  <2>1. calls' \in [D!Slot -> {D!NoCall} \cup Asked] /\ calls[s].node \in Node
    BY <1>0, <1>3, <1>10, SlotSteps DEF D!Saved
  <2>2. CASE calls[s].is = "ok"
    <3>1. /\ heading' = calls[s].node /\ saved' = calls[s].node
          /\ UNCHANGED <<registered, open, content, address, due>>
      BY <1>10, <2>2 DEF D!Saved
    <3>2. None \notin Node
      BY PagesAssumption DEF D!ConsoleDrawerAssumption
    <3> QED  BY <1>0, <1>1, <2>1, <3>1, <3>2
  <2>3. CASE calls[s].is # "ok"
    BY <1>0, <1>1, <1>10, <2>1, <2>3 DEF D!Saved
  <2> QED  BY <2>2, <2>3
<1>11. ASSUME NEW s \in D!Slot, D!Configured(s) PROVE DrawerInv'
  <2>1. calls' \in [D!Slot -> {D!NoCall} \cup Asked]
    BY <1>0, <1>3, <1>11, SlotSteps DEF D!Configured
  <2> QED  BY <1>0, <1>1, <1>11, <2>1 DEF D!Configured
<1>12. ASSUME NEW s \in D!Slot, D!Reopened(s) PROVE DrawerInv'
  BY <1>0, <1>2, <1>3, <1>12 DEF D!Reopened
<1>13. ASSUME NEW s \in D!Slot, D!Removed(s) PROVE DrawerInv'
  <2>1. calls' \in [D!Slot -> {D!NoCall} \cup Asked]
    BY <1>0, <1>13, SlotSteps DEF D!Removed
  <2> QED  BY <1>0, <1>1, <1>13, <1>16, <2>1 DEF D!Removed
<1>14. ASSUME NEW n \in Node, D!Register(n) PROVE DrawerInv'
  BY <1>0, <1>1, <1>14 DEF D!Register
<1>15. CASE UNCHANGED D!drawerVars
  BY <1>0, <1>1, <1>15 DEF D!drawerVars
<1> QED
  BY <1>4, <1>5, <1>6, <1>7, <1>8, <1>9, <1>10, <1>11, <1>12, <1>13, <1>14, <1>15 DEF D!DrawerNext

\* Whatever answers overtake one another (central/ui.ts, openNodeDrawer and the
\* handlers of its buttons), the panels stand under a heading of their node until a
\* saving is answered, then under one of the node last saved; and a page whose path
\* is that of a node shows the drawer or is about to.
THEOREM DrawerAlwaysAgrees == PagesSpec => []DrawerAgrees
<1>1. PagesInit => DrawerInv
  BY DrawerStart DEF PagesInit
<1>2. DrawerInv /\ [PagesNext]_<<part, routesVars, fVars, dVars, eVars>> => DrawerInv'
  BY OnePartMoves, DrawerStep
<1>3. DrawerInv => DrawerAgrees
  BY DEF DrawerInv, DrawerAgrees
<1> QED  BY <1>1, <1>2, <1>3, PTL DEF PagesSpec

-----------------------------------------------------------------------------
(* ConsoleEnroll.                                                          *)

Entered == [place: Place, secret: Secret \cup {None}]

\* The preview at hand is of a test no older than it says.
EnrollInv ==
  /\ E!EnrollTypeOK
  /\ preview \in [of: E!Form \cup {None}, age: 0..E!Old]
  /\ testing \in [of: E!Form \cup {None}, do: {"preview", "add"}]
  /\ preview.of # None => tested[preview.of] <= preview.age
  /\ command.token = command.names

LEMMA EnrollConstants ==
  /\ Minute \in Nat /\ E!Old = Minute + 1 /\ 0 \in 0..E!Old /\ E!Old \in Nat
  /\ \A f \in Entered : f.secret # None => f \in E!Form
  /\ E!Form \subseteq Entered
BY PagesAssumption DEF E!ConsoleEnrollAssumption, E!Old, Entered, E!Form

LEMMA EnrollStart == E!EnrollInit => EnrollInv
<1> SUFFICES ASSUME E!EnrollInit PROVE EnrollInv
  OBVIOUS
<1>1. /\ modal = FALSE /\ step = 1 /\ fields \in [place: Place, secret: {None}]
      /\ preview = [of |-> None, age |-> 0] /\ testing = [of |-> None, do |-> "preview"]
      /\ adding = None /\ minting = None /\ command = [token |-> None, names |-> None]
      /\ tested = [f \in E!Form |-> E!Old]
  BY DEF E!EnrollInit, E!NoPreview, E!NotTesting, E!NoCommand
<1>2. /\ preview \in [of: E!Form \cup {None}, age: 0..E!Old] /\ preview.of = None
      /\ testing \in [of: E!Form \cup {None}, do: {"preview", "add"}]
      /\ tested \in [E!Form -> 0..E!Old] /\ command.token = command.names
  BY <1>1, EnrollConstants
<1>3. fields \in [place: Place, secret: Secret \cup {None}]
  BY <1>1
<1>4. preview.of \in E!Form \cup {None} /\ preview.age \in 0..E!Old /\ testing.of \in E!Form \cup {None}
  BY <1>1, EnrollConstants
<1>5. /\ modal \in BOOLEAN /\ step \in 1..2 /\ adding \in E!Form \cup {None} /\ minting \in Place \cup {None}
  <2>1. 1 \in 1..2
    OBVIOUS
  <2> QED  BY <1>1, <2>1
<1>6. E!EnrollTypeOK
  BY <1>2, <1>3, <1>4, <1>5 DEF E!EnrollTypeOK
<1> QED  BY <1>2, <1>6 DEF EnrollInv

LEMMA EnrollStep == EnrollInv /\ [E!EnrollNext]_(E!enrollVars) => EnrollInv'
<1> SUFFICES ASSUME EnrollInv, [E!EnrollNext]_(E!enrollVars) PROVE EnrollInv'
  OBVIOUS
<1>0. /\ modal \in BOOLEAN /\ step \in 1..2 /\ fields \in Entered
      /\ preview \in [of: E!Form \cup {None}, age: 0..E!Old]
      /\ testing \in [of: E!Form \cup {None}, do: {"preview", "add"}]
      /\ adding \in E!Form \cup {None} /\ minting \in Place \cup {None}
      /\ tested \in [E!Form -> 0..E!Old]
      /\ preview.of # None => tested[preview.of] <= preview.age
      /\ command.token = command.names
  BY DEF EnrollInv, E!EnrollTypeOK, Entered
<1>1. ASSUME modal' \in BOOLEAN, step' \in 1..2, fields' \in Entered,
             preview' \in [of: E!Form \cup {None}, age: 0..E!Old],
             testing' \in [of: E!Form \cup {None}, do: {"preview", "add"}],
             adding' \in E!Form \cup {None}, minting' \in Place \cup {None},
             tested' \in [E!Form -> 0..E!Old],
             preview'.of # None => tested'[preview'.of] <= preview'.age,
             command'.token = command'.names
      PROVE  EnrollInv'
  <2>1. /\ preview'.of \in E!Form \cup {None} /\ preview'.age \in 0..E!Old
        /\ testing'.of \in E!Form \cup {None}
    BY <1>1
  <2> QED  BY <1>1, <2>1 DEF EnrollInv, E!EnrollTypeOK, Entered
<1>2. /\ E!NoPreview \in [of: E!Form \cup {None}, age: 0..E!Old] /\ E!NoPreview.of = None
      /\ E!NotTesting \in [of: E!Form \cup {None}, do: {"preview", "add"}]
      /\ E!NoCommand.token = E!NoCommand.names
      /\ [fields EXCEPT !.secret = None] \in Entered
  BY <1>0, EnrollConstants DEF E!NoPreview, E!NotTesting, E!NoCommand, Entered
<1>c. ASSUME E!CloseModal
      PROVE  /\ modal' \in BOOLEAN /\ step' \in 1..2 /\ fields' \in Entered
             /\ preview' \in [of: E!Form \cup {None}, age: 0..E!Old] /\ preview'.of = None
  <2>1. modal' = FALSE /\ step' = 1 /\ preview' = E!NoPreview /\ fields' = [fields EXCEPT !.secret = None]
    BY <1>c DEF E!CloseModal
  <2>2. modal' \in BOOLEAN /\ step' \in 1..2
    <3>1. 1 \in 1..2
      OBVIOUS
    <3> QED  BY <2>1, <3>1
  <2>3. fields' \in Entered
    BY <1>2, <2>1
  <2>4. preview' \in [of: E!Form \cup {None}, age: 0..E!Old] /\ preview'.of = None
    BY <1>2, <2>1, Zenon
  <2> QED  BY <2>2, <2>3, <2>4
<1>3. CASE E!OpenModal
  BY <1>0, <1>1, <1>2, <1>3 DEF E!OpenModal
<1>4. CASE E!Cancel
  BY <1>0, <1>1, <1>c, <1>4 DEF E!Cancel
<1>5. CASE E!Edit
  BY <1>0, <1>1, <1>5 DEF E!Edit, Entered
<1>6. CASE E!StepBack
  BY <1>0, <1>1, <1>2, <1>6 DEF E!StepBack
<1>7. CASE E!Test
  <2>1. testing' = [of |-> fields, do |-> "preview"] /\ fields \in E!Form
    BY <1>0, <1>7, EnrollConstants DEF E!Test
  <2>2. testing' \in [of: E!Form \cup {None}, do: {"preview", "add"}]
    BY <2>1
  <2> QED  BY <1>0, <1>1, <1>7, <2>2 DEF E!Test
<1>8. CASE E!TestPassed
  <2> DEFINE f == testing.of
  <2>1. /\ f \in E!Form /\ testing' = E!NotTesting /\ preview' = [of |-> f, age |-> 0] /\ step' = 2
        /\ tested' = [tested EXCEPT ![f] = 0]
        /\ UNCHANGED <<modal, fields, adding, minting, command>>
    BY <1>0, <1>8 DEF E!TestPassed
  <2> HIDE DEF f
  <2>2. /\ preview' \in [of: E!Form \cup {None}, age: 0..E!Old] /\ preview'.of = f /\ preview'.age = 0
        /\ tested' \in [E!Form -> 0..E!Old] /\ tested'[f] = 0
    BY <1>0, <2>1, EnrollConstants
  <2> QED  BY <1>0, <1>1, <1>2, <2>1, <2>2
<1>9. CASE E!TestRefused
  BY <1>0, <1>1, <1>2, <1>9 DEF E!TestRefused
<1>10. CASE E!NoPreviews
  <2>1. testing' \in [of: E!Form \cup {None}, do: {"preview", "add"}]
    BY <1>0, <1>10 DEF E!NoPreviews
  <2> QED  BY <1>0, <1>1, <1>10, <2>1 DEF E!NoPreviews
<1>11. CASE E!AddedAtOnce
  BY <1>0, <1>1, <1>2, <1>c, <1>11 DEF E!AddedAtOnce
<1>12. CASE E!Submit
  <2>1. E!Stands => fields \in E!Form
    BY <1>0 DEF E!Stands
  <2> QED  BY <1>0, <1>1, <1>12, <2>1 DEF E!Submit
<1>13. CASE E!Added
  BY <1>0, <1>1, <1>c, <1>13 DEF E!Added
<1>14. CASE E!Prepare
  <2>1. minting' \in Place \cup {None}
    BY <1>0, <1>14 DEF E!Prepare, Entered
  <2> QED  BY <1>0, <1>1, <1>14, <2>1 DEF E!Prepare
<1>15. CASE E!Prepared
  <2>1. command'.token = command'.names
    BY <1>0, <1>15 DEF E!Prepared
  <2> QED  BY <1>0, <1>1, <1>15, <2>1 DEF E!Prepared
<1>16. CASE E!Tick
  <2> DEFINE g == preview.age
             o == preview.of
  <2>1. /\ preview' = [preview EXCEPT !.age = IF g = E!Old \/ o = None THEN g ELSE g + 1]
        /\ tested' = [f \in E!Form |-> IF tested[f] = E!Old THEN E!Old ELSE tested[f] + 1]
        /\ UNCHANGED <<modal, step, fields, testing, adding, minting, command>>
    BY <1>16 DEF E!Tick
  <2>2. /\ g \in 0..E!Old /\ o \in E!Form \cup {None} /\ (o # None => tested[o] \in 0..E!Old /\ tested[o] <= g)
    BY <1>0
  <2>3. preview'.of = o /\ preview'.age = IF g = E!Old \/ o = None THEN g ELSE g + 1
    BY <1>0, <2>1
  <2> HIDE DEF g, o
  <2>4. preview' \in [of: E!Form \cup {None}, age: 0..E!Old]
    <3>1. preview'.age \in 0..E!Old
      BY <2>2, <2>3, EnrollConstants
    <3>2. preview' = [of |-> preview'.of, age |-> preview'.age]
      BY <1>0, <2>1
    <3> QED  BY <2>2, <2>3, <3>1, <3>2
  <2>5. tested' \in [E!Form -> 0..E!Old]
    <3>1. ASSUME NEW f \in E!Form PROVE (IF tested[f] = E!Old THEN E!Old ELSE tested[f] + 1) \in 0..E!Old
      <4>1. tested[f] \in 0..E!Old
        BY <1>0
      <4> QED  BY <4>1, EnrollConstants
    <3> QED  BY <2>1, <3>1
  <2>6. preview'.of # None => tested'[preview'.of] <= preview'.age
    <3> SUFFICES ASSUME o # None PROVE tested'[o] <= preview'.age
      BY <2>3
    <3>1. tested'[o] = IF tested[o] = E!Old THEN E!Old ELSE tested[o] + 1
      BY <2>1, <2>2
    <3> QED  BY <2>2, <2>3, <3>1, EnrollConstants
  <2> QED  BY <1>0, <1>1, <2>1, <2>4, <2>5, <2>6
<1>17. CASE UNCHANGED E!enrollVars
  BY <1>0, <1>1, <1>17 DEF E!enrollVars
<1> QED
  BY <1>3, <1>4, <1>5, <1>6, <1>7, <1>8, <1>9, <1>10, <1>11, <1>12, <1>13, <1>14, <1>15, <1>16, <1>17
  DEF E!EnrollNext

\* However late the answers of tests come and whatever was edited, closed and
\* opened meanwhile (central/ui.ts, btn-submit-enroll), the add button sends only
\* what Central tested, as it stands, in the minute before; and a deploy command
\* names the place its token was minted for.
THEOREM EnrollActsAlwaysOnItsForm == PagesSpec => EnrollActsOnItsForm
<1>1. PagesInit => EnrollInv
  BY EnrollStart DEF PagesInit
<1>2. EnrollInv /\ [PagesNext]_<<part, routesVars, fVars, dVars, eVars>> => EnrollInv'
  BY OnePartMoves, EnrollStep
<1>3. EnrollInv => E!EnrollTypeOK /\ command.token = command.names
  BY DEF EnrollInv
<1>4. EnrollInv /\ [PagesNext]_<<part, routesVars, fVars, dVars, eVars>>
        => [adding = None /\ adding' # None => tested[adding'] <= Minute]_(E!enrollVars)
  <2> SUFFICES ASSUME EnrollInv, E!EnrollNext, adding = None, adding' # None
               PROVE  tested[adding'] <= Minute
    BY OnePartMoves
  <2>1. E!Submit /\ E!Stands /\ adding' = fields
    BY DEF E!EnrollNext, E!OpenModal, E!Cancel, E!Edit, E!StepBack, E!Test, E!TestPassed, E!TestRefused,
           E!NoPreviews, E!AddedAtOnce, E!Submit, E!Added, E!Prepare, E!Prepared, E!Tick
  <2>2. preview.of # None /\ preview.age <= Minute /\ preview.of = fields
    BY <2>1 DEF E!Stands
  <2>3. /\ tested[preview.of] <= preview.age /\ tested[preview.of] \in 0..E!Old /\ preview.age \in 0..E!Old
    BY <2>2 DEF EnrollInv, E!EnrollTypeOK
  <2> QED  BY <2>1, <2>2, <2>3, EnrollConstants
<1> QED  BY <1>1, <1>2, <1>3, <1>4, PTL DEF PagesSpec, EnrollActsOnItsForm, E!EnrollActsOnItsForm
=============================================================================
