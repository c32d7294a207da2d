----------------------------- MODULE ConsoleEnroll -----------------------------
(***************************************************************************)
(* The form that adds a honeypot (central/ui.ts): test the connection      *)
(* first, add within a minute what was tested, or have a deploy command    *)
(* prepared.  While a request is under way its button is disabled, but the *)
(* form can be edited, closed and opened again; the answer is applied to   *)
(* whatever the form is by then.                                           *)
(***************************************************************************)
EXTENDS Integers

CONSTANTS
  Place,  \* host, port and the rest of what a honeypot is deployed with
  Secret, \* barrier token and channel
  Minute, \* ticks a test counts for
  None

VARIABLES
  shown,   \* the modal is seen
  step,    \* of the form: 1, test; 2, add
  fields,  \* what is entered: [place, secret], secret None when blank or too short
  preview, \* enrollPreview: [of, age], of None without one
  testing, \* request of the test button: [of, do], "preview" or "add"; of None
  adding,  \* fields of the request of the add button, or None
  minting, \* place in the request for a deploy command, or None
  command, \* the command shown: place its token was minted for, place it names
  tested   \* history: fields -> ticks since Central's answer to a test of them

enrollVars == <<shown, step, fields, preview, testing, adding, minting, command, tested>>

ConsoleEnrollAssumption == Minute \in Nat /\ None \notin Place \cup Secret

Form == [place: Place, secret: Secret]
NoPreview == [of |-> None, age |-> 0]
NotTesting == [of |-> None, do |-> "preview"]
NoCommand == [token |-> None, names |-> None]
Old == Minute + 1

EnrollInit ==
  /\ shown = FALSE /\ step = 1
  /\ fields \in [place: Place, secret: {None}]
  /\ preview = NoPreview /\ testing = NotTesting
  /\ adding = None /\ minting = None /\ command = NoCommand
  /\ tested = [f \in Form |-> Old]

-----------------------------------------------------------------------------
\* openEnrollModal.
OpenModal ==
  /\ shown' = TRUE /\ step' = 1
  /\ fields' = [fields EXCEPT !.secret = None]
  /\ preview' = NoPreview /\ command' = NoCommand
  /\ UNCHANGED <<testing, adding, minting, tested>>

\* closeEnrollModal: the command stays for the next opening to take away.
CloseModal ==
  /\ shown' = FALSE /\ step' = 1
  /\ preview' = NoPreview /\ fields' = [fields EXCEPT !.secret = None]

Cancel == CloseModal /\ UNCHANGED <<testing, adding, minting, command, tested>>

\* The fields are those of step 1.
Edit ==
  /\ shown /\ step = 1
  /\ fields' \in [place: Place, secret: Secret \cup {None}]
  /\ UNCHANGED <<shown, step, preview, testing, adding, minting, command, tested>>

\* The back button.
StepBack ==
  /\ shown /\ step = 2
  /\ step' = 1 /\ preview' = NoPreview
  /\ UNCHANGED <<shown, fields, testing, adding, minting, command, tested>>

\* The test button, on fields that pass its check.
Test ==
  /\ shown /\ step = 1 /\ testing = NotTesting /\ fields.secret # None
  /\ testing' = [of |-> fields, do |-> "preview"]
  /\ UNCHANGED <<shown, step, fields, preview, adding, minting, command, tested>>

\* The answer to a preview: tested, and the form goes on to step 2 ...
TestPassed ==
  /\ testing.of # None /\ testing.do = "preview"
  /\ testing' = NotTesting
  /\ preview' = [of |-> testing.of, age |-> 0] /\ step' = 2
  /\ tested' = [tested EXCEPT ![testing.of] = 0]
  /\ UNCHANGED <<shown, fields, adding, minting, command>>

\* ... or an error, or a honeypot that exists already, which both leave the form.
TestRefused ==
  /\ testing.of # None
  /\ testing' = NotTesting
  /\ UNCHANGED <<shown, step, fields, preview, adding, minting, command, tested>>

\* A Central that has no previews (404, 405) is asked to add at once.
NoPreviews ==
  /\ testing.of # None /\ testing.do = "preview"
  /\ testing' = [testing EXCEPT !.do = "add"]
  /\ UNCHANGED <<shown, step, fields, preview, adding, minting, command, tested>>

AddedAtOnce ==
  /\ testing.of # None /\ testing.do = "add"
  /\ testing' = NotTesting
  /\ CloseModal
  /\ UNCHANGED <<adding, minting, command, tested>>

\* Mutant: the secret is compared, the place entered since is not.
SameSecret == preview.of # None /\ preview.age <= Minute /\ preview.of.secret = fields.secret

\* The test still stands for what is entered.
Stands == preview.of # None /\ preview.age <= Minute /\ preview.of = fields

\* The add button, which an outdated test sends back to step 1.
Submit ==
  /\ shown /\ step = 2 /\ adding = None
  /\ IF Stands THEN adding' = fields /\ UNCHANGED step
     ELSE step' = 1 /\ UNCHANGED adding
  /\ UNCHANGED <<shown, fields, preview, testing, minting, command, tested>>

Added ==
  /\ adding # None
  /\ adding' = None
  /\ CloseModal \/ UNCHANGED <<shown, step, fields, preview>> \* added, or refused
  /\ UNCHANGED <<testing, minting, command, tested>>

\* The button that prepares a deploy command.
Prepare ==
  /\ shown /\ step = 1 /\ minting = None
  /\ minting' = fields.place
  /\ UNCHANGED <<shown, step, fields, preview, testing, adding, command, tested>>

\* The token is answered; the command is put together from what was asked for.
Prepared ==
  /\ minting # None
  /\ minting' = None
  /\ command' \in {[token |-> minting, names |-> minting], command}
  /\ UNCHANGED <<shown, step, fields, preview, testing, adding, tested>>

Tick ==
  /\ preview' = [preview EXCEPT !.age = IF @ = Old \/ preview.of = None THEN @ ELSE @ + 1]
  /\ tested' = [f \in Form |-> IF tested[f] = Old THEN Old ELSE tested[f] + 1]
  /\ UNCHANGED <<shown, step, fields, testing, adding, minting, command>>

EnrollNext ==
  \/ OpenModal \/ Cancel \/ Edit \/ StepBack
  \/ Test \/ TestPassed \/ TestRefused \/ NoPreviews \/ AddedAtOnce
  \/ Submit \/ Added \/ Prepare \/ Prepared
  \/ Tick

-----------------------------------------------------------------------------
EnrollTypeOK ==
  /\ shown \in BOOLEAN /\ step \in 1 .. 2
  /\ fields \in [place: Place, secret: Secret \cup {None}]
  /\ preview.of \in Form \cup {None} /\ preview.age \in 0 .. Old
  /\ testing.of \in Form \cup {None} /\ adding \in Form \cup {None}
  /\ minting \in Place \cup {None}
  /\ tested \in [Form -> 0 .. Old]

\* However late the answers of tests come and whatever was edited, closed and
\* opened meanwhile, the add button sends only what Central tested, as it
\* stands, in the minute before; and a deploy command names the place its
\* token was minted for.
EnrollActsOnItsForm ==
  /\ [][adding = None /\ adding' # None => tested[adding'] <= Minute]_enrollVars
  /\ [](command.token = command.names)
=============================================================================
