------------------------------ MODULE AsyncSelect ------------------------------
(***************************************************************************)
(* A picker whose options are loaded for the text typed into it, after a   *)
(* debounce.  The effect on the text and on opening cancels the load       *)
(* before; a load that was sent cannot be taken back, only ignored.        *)
(***************************************************************************)
EXTENDS Integers

CONSTANTS
  Queries,     \* texts of the search box
  NoQuery,     \* the initial, empty one
  NoOptions,   \* options have never been loaded, or the load failed
  MaxLoads     \* bound: calls of loadOptions in flight

ASSUME QueryAssumption == NoQuery \in Queries /\ NoOptions \notin Queries

VARIABLES
  isOpen, query,
  opts,       \* the query whose options are listed
  busy,       \* loading
  failed,     \* error
  debounce,   \* the debounce timer of the effect in force
  loads       \* loadOptions in flight: their query, whether their effect is in force

picker == <<isOpen, query, opts, busy, failed, debounce, loads>>

PickerTypeOK ==
  /\ query \in Queries
  /\ opts \in Queries \cup {NoOptions}
  /\ {isOpen, busy, failed, debounce} \subseteq BOOLEAN
  /\ loads \subseteq [id : 1..MaxLoads, query : Queries, live : BOOLEAN]

PickerInit ==
  /\ isOpen = FALSE /\ query = NoQuery /\ opts = NoOptions
  /\ busy = FALSE /\ failed = FALSE /\ debounce = FALSE
  /\ loads = {}

-----------------------------------------------------------------------------
\* Faulty: the cleanup clears the timer only.
ForgetTimer == loads

\* The cleanup: a load in flight is cancelled, which its answer will find.
Cancelled == {[l EXCEPT !.live = FALSE] : l \in loads}

Restart ==
  /\ busy' = TRUE /\ failed' = FALSE /\ debounce' = TRUE
  /\ loads' = Cancelled

OpenPicker ==
  /\ ~isOpen
  /\ isOpen' = TRUE
  /\ Restart
  /\ UNCHANGED <<query, opts>>

Search(q) ==
  /\ isOpen /\ q # query
  /\ query' = q
  /\ Restart
  /\ UNCHANGED <<isOpen, opts>>

\* A pick, Tab, Escape or a click outside; `loading` stays as it is.
ClosePicker ==
  /\ isOpen
  /\ isOpen' = FALSE
  /\ debounce' = FALSE
  /\ loads' = Cancelled
  /\ UNCHANGED <<query, opts, busy, failed>>

Load ==
  /\ debounce
  /\ debounce' = FALSE
  /\ \E i \in 1..MaxLoads \ {l.id : l \in loads} :
       loads' = loads \cup {[id |-> i, query |-> query, live |-> TRUE]}
  /\ UNCHANGED <<isOpen, query, opts, busy, failed>>

Loaded(l) ==
  /\ loads' = loads \ {l}
  /\ IF l.live THEN opts' = l.query /\ busy' = FALSE ELSE UNCHANGED <<opts, busy>>
  /\ UNCHANGED <<isOpen, query, failed, debounce>>

LoadFails(l) ==
  /\ loads' = loads \ {l}
  /\ IF l.live
     THEN opts' = NoOptions /\ failed' = TRUE /\ busy' = FALSE
     ELSE UNCHANGED <<opts, failed, busy>>
  /\ UNCHANGED <<isOpen, query, debounce>>

PickerNext ==
  \/ \E q \in Queries : Search(q)
  \/ \E l \in loads : Loaded(l) \/ LoadFails(l)
  \/ OpenPicker \/ ClosePicker \/ Load

PickerSpec == PickerInit /\ [][PickerNext]_picker

-----------------------------------------------------------------------------
\* The list a user can pick from answers the text in the box, in whatever order
\* the loads of earlier texts come back: no option of another text can be picked.
ListAnswersTheQuery ==
  isOpen /\ ~busy /\ ~failed => opts = query
=============================================================================
