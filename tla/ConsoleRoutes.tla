----------------------------- MODULE ConsoleRoutes -----------------------------
(***************************************************************************)
(* Where the console page is (central/ui.ts): the tab and its filters, the *)
(* address that stands for them and the buttons pressed.  setTab writes    *)
(* the address from the view, handleRoute the view from an address: from   *)
(* that of a page just loaded when the browser loads it, from the present  *)
(* one when the browser goes back or forward.                              *)
(*                                                                         *)
(* An address is a path, what stands behind its #, if anything, and the    *)
(* parameters.  setTab looks at path and parameters only: when they are    *)
(* what it would write, it leaves the address and what is behind its #.    *)
(***************************************************************************)
EXTENDS Naturals

CONSTANTS
  Filter,  \* event filters with a button, but for "all"
  Conn,    \* connection filters, but for "all"
  Proto,   \* protocol filters, but for "all"
  Section, \* sections of the settings, but for the first
  Query,   \* what is searched for
  Hash     \* what may stand behind the # of an address, but for "none"

VARIABLES
  view,    \* state: tab, mode, filter, conn, proto, section, search
  url,     \* the address: its path, what is behind its # and its parameters
  pressed, \* the active button of each group: filter, conn, proto
  last     \* history: what the last step did to view and address

routesVars == <<view, url, pressed, last>>

ConsoleRoutesAssumption ==
  /\ "flag" \in Filter /\ "all" \notin Filter \cup Conn \cup Proto
  /\ Hash \subseteq {"honeypots", "activity", "threats", "sessions", "settings", "node"}

Tab == {"overview", "honeypots", "activity", "settings"}

\* state as the page is loaded.
Fresh == [tab |-> "overview", mode |-> "events", filter |-> "all", conn |-> "all",
          proto |-> "all", section |-> "integrations", search |-> ""]

View == [tab: Tab, mode: {"events", "sessions"}, filter: Filter \cup {"all"},
         conn: Conn \cup {"all"}, proto: Proto \cup {"all"},
         section: Section \cup {"integrations"}, search: Query \cup {""}]

-----------------------------------------------------------------------------
\* Mutant: the search is written into the address of the event list only.
ActivitySearchOnly(v) ==
  LET given == {p \in DOMAIN v \ {"tab"} : v[p] # Fresh[p]} \intersect
        CASE v.tab = "activity" -> {"mode", "filter", "search"}
          [] v.tab = "honeypots" -> {"conn", "proto"}
          [] v.tab = "settings" -> {"section"}
          [] OTHER -> {}
  IN [p \in given |-> v[p]]

\* serializeQuery: of what the tab shows, what differs from a page just loaded.
Params(v) ==
  LET given == {p \in DOMAIN v \ {"tab"} : v[p] # Fresh[p]} \intersect
        CASE v.tab = "activity" -> {"mode", "filter", "search"}
          [] v.tab = "honeypots" -> {"conn", "proto", "search"}
          [] v.tab = "settings" -> {"section"}
          [] OTHER -> {}
  IN [p \in given |-> v[p]]

Address(v) == [path |-> v.tab, hash |-> "none", params |-> Params(v)]

\* The address has one of these names, as its path or behind its #.
At(u, names) == u.path \in names \/ u.hash \in names

\* handleRoute: an address that names a node says nothing but the tab; of the
\* parameters another one lacks, only the event filter is set back.
Route(v, u) ==
  LET Param(p, absent) == IF p \in DOMAIN u.params THEN u.params[p] ELSE absent
      tab == IF At(u, {"honeypots", "nodes"}) THEN "honeypots"
             ELSE IF At(u, {"activity", "threats", "sessions"}) THEN "activity"
             ELSE IF At(u, {"settings"}) THEN "settings" ELSE "overview"
      sessions == tab = "activity" /\ ~At(u, {"activity", "threats"})
  IN IF At(u, {"node"}) THEN [v EXCEPT !.tab = "honeypots"]
     ELSE [tab |-> tab,
           mode |-> IF sessions THEN "sessions" ELSE Param("mode", v.mode),
           filter |-> Param("filter", "all"),
           conn |-> Param("conn", v.conn),
           proto |-> Param("proto", v.proto),
           section |-> Param("section", v.section),
           search |-> Param("search", v.search)]

\* The addresses the page writes and the others it understands ...
Plain ==
  {Address(v) : v \in View} \cup
  {[path |-> p, hash |-> "none", params |-> <<>>] : p \in {"root", "nodes", "threats", "sessions", "node"}}

\* ... and these with something behind a #.
Addresses ==
  {[path |-> u.path, hash |-> h, params |-> u.params] : u \in Plain, h \in Hash \cup {"none"}}

RoutesInit ==
  \E u \in Addresses :
    /\ url = u /\ view = Route(Fresh, u) /\ last = "route"
    /\ pressed = [filter |-> Route(Fresh, u).filter, conn |-> "all", proto |-> "all"]

\* setTab, once state is v.
SetTab(v) ==
  /\ view' = v
  /\ url' = IF [url EXCEPT !.hash = "none"] = Address(v) THEN url ELSE Address(v)
  /\ last' = "push"

\* The links of the sidebar, of the overview and of the search, and a form whose
\* honeypot was added.
Visit(t) == SetTab([view EXCEPT !.tab = t]) /\ UNCHANGED pressed

\* A connection or protocol button: pressed again, it lets all pass.
NodeFilter(group, value) ==
  LET to == IF pressed[group] = value THEN "all" ELSE value
  IN /\ SetTab([view EXCEPT ![group] = to, !.tab = "honeypots"])
     /\ pressed' = [pressed EXCEPT ![group] = to]

\* clearActivityFilters.
Clear ==
  /\ SetTab([view EXCEPT !.tab = "activity", !.filter = "all", !.search = ""])
  /\ pressed' = [pressed EXCEPT !.filter = "all"]

\* An event button, neither "all" nor pressed already.
EventFilter(f) ==
  /\ pressed.filter # f
  /\ SetTab([view EXCEPT !.tab = "activity", !.filter = f])
  /\ pressed' = [pressed EXCEPT !.filter = f]

\* The alarm and the pill, which leave the buttons as they are ...
ReviewFlags ==
  SetTab([view EXCEPT !.tab = "activity", !.filter = "flag"]) /\ UNCHANGED pressed

\* ... and the card that counts flags, which does not; the one that counts
\* sessions is a Mode, the others are visits.
FlagsCard ==
  /\ SetTab([view EXCEPT !.tab = "activity", !.filter = "flag"])
  /\ pressed' = [pressed EXCEPT !.filter = "flag"]

Mode(m) == SetTab([view EXCEPT !.tab = "activity", !.mode = m]) /\ UNCHANGED pressed

ShowSection(s) == SetTab([view EXCEPT !.tab = "settings", !.section = s]) /\ UNCHANGED pressed

\* filterBySession, and an event among the hits of a search.
FilterBySession(q) == SetTab([view EXCEPT !.tab = "activity", !.search = q]) /\ UNCHANGED pressed

\* What is typed filters at once, and reaches the address with the next setTab.
Type(q) ==
  /\ view' = [view EXCEPT !.search = q]
  /\ last' = "type"
  /\ UNCHANGED <<url, pressed>>

Enter == view.tab \in {"honeypots", "activity"} /\ SetTab(view) /\ UNCHANGED pressed

\* openNodeDrawer and closeDrawer write addresses of their own over any tab.
Drawer ==
  /\ url' \in [path: IF url.path = "node" THEN {"node", "honeypots"} ELSE {"node"},
               hash: {"none"}, params: {<<>>}]
  /\ last' = "drawer"
  /\ UNCHANGED <<view, pressed>>

\* popstate: back or forward to an address of this page.
Back(u) ==
  /\ url' = u /\ view' = Route(view, u) /\ last' = "route"
  /\ pressed' = IF At(u, {"node"}) THEN pressed
                ELSE [pressed EXCEPT !.filter = Route(view, u).filter]

RoutesNext ==
  \/ \E t \in Tab : Visit(t)
  \/ \E c \in Conn \cup {"all"} : NodeFilter("conn", c)
  \/ \E p \in Proto \cup {"all"} : NodeFilter("proto", p)
  \/ Clear
  \/ \E f \in Filter : EventFilter(f)
  \/ ReviewFlags \/ FlagsCard
  \/ \E m \in {"events", "sessions"} : Mode(m)
  \/ \E s \in Section \cup {"integrations"} : ShowSection(s)
  \/ \E q \in Query : FilterBySession(q)
  \/ \E q \in Query \cup {""} : Type(q)
  \/ Enter
  \/ Drawer
  \/ \E u \in Addresses : Back(u)

-----------------------------------------------------------------------------
RoutesTypeOK ==
  /\ view \in View
  /\ url \in Addresses
  /\ pressed \in [filter: Filter \cup {"all"}, conn: Conn \cup {"all"}, proto: Proto \cup {"all"}]
  /\ last \in {"push", "route", "type", "drawer"}

\* What the list of a tab goes by (renderNodes, renderActivity).
Lists(v) ==
  [p \in CASE v.tab = "overview" -> {"filter", "search"}
            [] v.tab = "activity" -> {"mode", "filter", "search"}
            [] v.tab = "honeypots" -> {"conn", "proto", "search"}
            [] OTHER -> {} |-> v[p]]

\* Whatever way led to the view, once setTab has written the address and nothing
\* stands behind its #, loading the page anew at that address shows the same tab,
\* and but for the overview the same list.
ReloadShowsTheSame ==
  last = "push" /\ url.hash = "none" =>
    /\ Route(Fresh, url).tab = view.tab
    /\ view.tab # "overview" => Lists(Route(Fresh, url)) = Lists(view)

(* Not so: the feed of the overview goes by a filter and a search that its     *)
(* address does not hold; of the settings the section is read from the address *)
(* and kept, while the page neither marks its link nor scrolls to it; and a    *)
(* name behind a # outlives the tab it stood for.                              *)

\* The overview too shows the same list.
OverviewShowsTheSame ==
  last = "push" /\ url.hash = "none" => Lists(Route(Fresh, url)) = Lists(view)

\* Whatever stands behind a #, the tab is the same.
ReloadKeepsTheTab == last = "push" => Route(Fresh, url).tab = view.tab
=============================================================================
