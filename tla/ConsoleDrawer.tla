----------------------------- MODULE ConsoleDrawer -----------------------------
(***************************************************************************)
(* The drawer of a node on the console page (central/ui.ts).  A handler    *)
(* runs at once up to its request and again when the answer comes; what    *)
(* the operator or the browser did in between is not looked at: the answer *)
(* of an opening fills the drawer, that of a saving rewrites its heading,  *)
(* that of a configuration opens it anew, that of a removal closes it,     *)
(* whatever the drawer shows by then.  An address names a node by its path *)
(* or behind its #; closing the drawer leaves the former only.             *)
(***************************************************************************)
EXTENDS Integers

CONSTANTS
  Node,
  None,
  MaxCalls \* bound: requests under way

VARIABLES
  registered, \* Central's nodes
  open,       \* the drawer is seen
  heading,    \* the node its title names, once an answer has given it
  content,    \* the node its panels and buttons are of
  url,        \* the node the address names by its path, and behind its #
  due,        \* nodes the router will open in 150 ms
  call,       \* slot -> a request under way: [do, node, is]
  saved       \* history: the node of the last saving answered since panels were filled

drawerVars == <<registered, open, heading, content, url, due, call, saved>>

ConsoleDrawerAssumption == None \notin Node

Slot == 1 .. MaxCalls
NoCall == [do |-> "nothing", node |-> None, is |-> "idle"]

\* A path that names a node leaves nothing behind the # to be looked at.
Address == [path: Node, hash: {None}] \cup [path: {None}, hash: Node \cup {None}]
Elsewhere == [path |-> None, hash |-> None]

\* handleRoute: the nodes an address makes it open, one or none.
Named(u) == {IF u.path # None THEN u.path ELSE u.hash} \ {None}

\* The page is loaded, at a node's address or another.
DrawerInit ==
  /\ registered = Node
  /\ open = FALSE
  /\ heading = None /\ content = None
  /\ url \in Address
  /\ due = Named(url)
  /\ call = [s \in Slot |-> NoCall]
  /\ saved = None

-----------------------------------------------------------------------------
\* apiFetch: a request leaves.
Send(s, do, n) == call' = [call EXCEPT ![s] = [do |-> do, node |-> n, is |-> "sent"]]

\* openNodeDrawer up to its request, and the address it gives the page.
Open(s, n, address) ==
  /\ open' = TRUE
  /\ heading' = None /\ content' = None /\ saved' = None
  /\ url' = address
  /\ Send(s, "open", n)

\* The buttons of the lists, a hit of the search, a honeypot that exists already.
Click(s, n) == call[s] = NoCall /\ Open(s, n, [Elsewhere EXCEPT !.path = n]) /\ UNCHANGED <<registered, due>>

\* The router's timer.
RouteTimer(s, n) ==
  /\ n \in due /\ call[s] = NoCall
  /\ due' = due \ {n}
  /\ Open(s, n, url)
  /\ UNCHANGED registered

\* closeDrawer: an address whose path names a node is left, another one stays.
CloseDrawer ==
  open' = FALSE /\ url' = IF url.path # None THEN Elsewhere ELSE url

\* Its button, the overlay and Escape.
Close ==
  /\ CloseDrawer
  /\ UNCHANGED <<registered, heading, content, due, call, saved>>

\* handleRoute after a popstate or a hashchange, and setTab, which names no node:
\* neither touches the drawer.
Back(u) ==
  /\ url' = u
  /\ due' = due \cup Named(u)
  /\ UNCHANGED <<registered, open, heading, content, call, saved>>

\* A button of the panels: save, configure or apply a template, remove.
Press(s, do) ==
  /\ open /\ content # None /\ call[s] = NoCall
  /\ Send(s, do, content)
  /\ UNCHANGED <<registered, open, heading, content, url, due, saved>>

\* Central handles a request and answers it; the answer to one it handled may be
\* lost, as the request may.
Handle(s) ==
  /\ call[s].is = "sent"
  /\ \E done, ok \in BOOLEAN :
       /\ ok => done
       /\ done /\ call[s].do # "refresh" => call[s].node \in registered
       /\ call' = [call EXCEPT ![s].is = IF ok THEN "ok" ELSE "failed"]
       /\ registered' = IF done /\ call[s].do = "remove"
                        THEN registered \ {call[s].node} ELSE registered
  /\ UNCHANGED <<open, heading, content, url, due, saved>>

\* A removed honeypot is added again.
Register(n) ==
  /\ n \notin registered
  /\ registered' = registered \cup {n}
  /\ UNCHANGED <<open, heading, content, url, due, call, saved>>

\* Mutant: an answer that finds a heading leaves it.
OpenedUnderOldHeading(s) ==
  /\ call[s].do = "open" /\ call[s].is \in {"ok", "failed"}
  /\ IF call[s].is = "ok"
     THEN /\ heading' = IF heading = None THEN call[s].node ELSE heading
          /\ content' = call[s].node /\ saved' = None
     ELSE content' = None /\ UNCHANGED <<heading, saved>>
  /\ call' = [call EXCEPT ![s] = NoCall]
  /\ UNCHANGED <<registered, open, url, due>>

\* The answer fills heading and panels; a failure says so in the panels.
Opened(s) ==
  /\ call[s].do = "open" /\ call[s].is \in {"ok", "failed"}
  /\ IF call[s].is = "ok"
     THEN heading' = call[s].node /\ content' = call[s].node /\ saved' = None
     ELSE content' = None /\ UNCHANGED <<heading, saved>>
  /\ call' = [call EXCEPT ![s] = NoCall]
  /\ UNCHANGED <<registered, open, url, due>>

\* saveNodeMetadata after its answer: the heading is that of the node saved.
Saved(s) ==
  /\ call[s].do = "save" /\ call[s].is \in {"ok", "failed"}
  /\ IF call[s].is = "ok"
     THEN heading' = call[s].node /\ saved' = call[s].node
     ELSE UNCHANGED <<heading, saved>>
  /\ call' = [call EXCEPT ![s] = NoCall]
  /\ UNCHANGED <<registered, open, content, url, due>>

\* configureNode, applyNodeTemplate: fetchAll first, whose end reports no failure ...
Configured(s) ==
  /\ call[s].do = "configure" /\ call[s].is \in {"ok", "failed"}
  /\ IF call[s].is = "ok" THEN Send(s, "refresh", call[s].node)
     ELSE call' = [call EXCEPT ![s] = NoCall]
  /\ UNCHANGED <<registered, open, heading, content, url, due, saved>>

\* ... and then the drawer of the node is opened.
Reopened(s) ==
  /\ call[s].do = "refresh" /\ call[s].is \in {"ok", "failed"}
  /\ Open(s, call[s].node, url)
  /\ UNCHANGED <<registered, due>>

\* unenrollNode.
Removed(s) ==
  /\ call[s].do = "remove" /\ call[s].is \in {"ok", "failed"}
  /\ IF call[s].is = "ok" THEN CloseDrawer ELSE UNCHANGED <<open, url>>
  /\ call' = [call EXCEPT ![s] = NoCall]
  /\ UNCHANGED <<registered, heading, content, due, saved>>

DrawerNext ==
  \/ \E s \in Slot, n \in Node : Click(s, n) \/ RouteTimer(s, n)
  \/ Close
  \/ \E u \in Address : Back(u)
  \/ \E s \in Slot, do \in {"save", "configure", "remove"} : Press(s, do)
  \/ \E s \in Slot :
       Handle(s) \/ Opened(s) \/ Saved(s) \/ Configured(s) \/ Reopened(s) \/ Removed(s)
  \/ \E n \in Node : Register(n)

-----------------------------------------------------------------------------
DrawerTypeOK ==
  /\ registered \subseteq Node
  /\ open \in BOOLEAN
  /\ {heading, content, saved} \subseteq Node \cup {None}
  /\ url \in Address
  /\ due \subseteq Node
  /\ call \in [Slot -> {NoCall} \cup
       [do: {"open", "save", "configure", "refresh", "remove"}, node: Node,
        is: {"sent", "ok", "failed"}]]

\* Whatever answers overtake one another, the panels, whose buttons act on a node,
\* stand under a heading of that node until a saving is answered, then under one of
\* the node last saved.
HeadingNamesPanels ==
  content # None => heading = (IF saved = None THEN content ELSE saved)

\* A page whose address names a node by its path shows the drawer or is about to.
AddressOpensDrawer == url.path # None => open \/ due # {}

\* Not so: that the heading is always that of the panels' node.  The answer to a
\* saving comes to whatever the drawer shows by then.
PanelsUnderOwnHeading == content # None => heading = content
=============================================================================
