-------------------------------- MODULE MCPages --------------------------------
(***************************************************************************)
(* The console page, side by side: every behaviour of this module is one   *)
(* of the page's routes, refreshing, drawer or form, the one named by      *)
(* `part', with the others at rest in an initial state.                    *)
(***************************************************************************)
EXTENDS ConsoleRoutes

CONSTANTS
  None,
  Loader, MaxValue, MaxChanges, MaxRounds, \* of ConsoleRefresh
  Node, MaxCalls,                          \* of ConsoleDrawer
  Place, Secret, Minute                    \* of ConsoleEnroll

VARIABLES
  part,
  doc, changes, shown, call, timer, first, alerted,
  registered, open, heading, content, address, due, calls, saved,
  modal, step, fields, preview, testing, adding, minting, command, tested

F == INSTANCE ConsoleRefresh
D == INSTANCE ConsoleDrawer WITH url <- address, call <- calls
E == INSTANCE ConsoleEnroll WITH shown <- modal

ASSUME PagesAssumption ==
  /\ ConsoleRoutesAssumption /\ F!ConsoleRefreshAssumption
  /\ D!ConsoleDrawerAssumption /\ E!ConsoleEnrollAssumption

fVars == <<doc, changes, shown, call, timer, first, alerted>>
dVars == <<registered, open, heading, content, address, due, calls, saved>>
eVars == <<modal, step, fields, preview, testing, adding, minting, command, tested>>

PagesInit ==
  /\ part \in {"routes", "refresh", "drawer", "enroll"}
  /\ RoutesInit /\ F!RefreshInit /\ D!DrawerInit /\ E!EnrollInit
  /\ part # "routes" => url = Address(Fresh)
  /\ part # "drawer" => address = D!Elsewhere
  /\ part # "enroll" => fields.place = CHOOSE p \in Place : TRUE

PagesNext ==
  /\ UNCHANGED part
  /\ \/ part = "routes" /\ RoutesNext /\ UNCHANGED <<fVars, dVars, eVars>>
     \/ part = "refresh" /\ F!RefreshNext /\ UNCHANGED <<routesVars, dVars, eVars>>
     \/ part = "drawer" /\ D!DrawerNext /\ UNCHANGED <<routesVars, fVars, eVars>>
     \/ part = "enroll" /\ E!EnrollNext /\ UNCHANGED <<routesVars, fVars, dVars>>

\* Refreshing promises something in the end; at rest none of its steps is taken.
PagesSpec ==
  /\ PagesInit /\ [][PagesNext]_<<part, routesVars, fVars, dVars, eVars>>
  /\ part = "refresh" => F!RefreshFairness

-----------------------------------------------------------------------------
(* What the modules state, with their type invariants.                     *)

\* ConsoleRoutes: whatever way led to a view, loading the page anew at the address
\* that setTab wrote for it shows the same tab and, but for the overview, list.
ReloadKeepsTheView == RoutesTypeOK /\ ReloadShowsTheSame

\* ConsoleRefresh: however the answers overtake one another, no flag is counted on
\* the page that was neither there at first nor announced.
RisesAreAnnounced == F!RefreshTypeOK /\ F!RisesAreAnnounced

\* ConsoleDrawer: the panels stand under a heading of their node until a saving is
\* answered, then of the node saved, and an address whose path is that of a node opens
\* the drawer.
DrawerAgrees == D!DrawerTypeOK /\ D!HeadingNamesPanels /\ D!AddressOpensDrawer

\* ConsoleRefresh: as long as the timer runs, the page comes to show what Central
\* serves.
PageCatchesUp == part = "refresh" => F!PageCatchesUp

\* ConsoleEnroll: what the form adds was tested as it stands in the minute before,
\* and its deploy command names the place the token was minted for.
EnrollActsOnItsForm == E!EnrollActsOnItsForm /\ []E!EnrollTypeOK
=============================================================================
