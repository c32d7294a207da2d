----------------------------- MODULE Collection -----------------------------
(***************************************************************************)
(* What the collection of a node's events promises, whatever the network,  *)
(* the pages and the crashes do: what was fed is fetched, and nothing is   *)
(* settled (behind the collector, never to be asked for again) that was    *)
(* neither fetched nor excused.  An event is excused when it is fed too    *)
(* late, which may settle it at once, or when the collector's own storage  *)
(* refuses it.                                                             *)
(***************************************************************************)
CONSTANT Event

VARIABLES fed, fetched, excused, settled

Feed == \E E \in SUBSET Event : \E Late \in SUBSET E : \E S \in SUBSET Late :
          /\ fed' = fed \cup E
          /\ excused' = excused \cup Late /\ settled' = settled \cup S
          /\ UNCHANGED fetched

Fetch == \E e \in fed :
           fetched' = fetched \cup {e} /\ UNCHANGED <<fed, excused, settled>>

Refuse == \E e \in fed :
            excused' = excused \cup {e} /\ UNCHANGED <<fed, fetched, settled>>

Settle == \E S \in SUBSET (fetched \cup excused) :
            settled' = settled \cup S /\ UNCHANGED <<fed, fetched, excused>>

CollectionInit == fed = {} /\ fetched = {} /\ excused = {} /\ settled = {}

CollectionNext == Feed \/ Fetch \/ Refuse \/ Settle

CollectionSpec ==
  CollectionInit /\ [][CollectionNext]_<<fed, fetched, excused, settled>>
=============================================================================
