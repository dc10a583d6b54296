------------------------------ MODULE InlineEdit -------------------------------
(***************************************************************************)
(* An editable table cell: opened by a click, saved on Enter and on blur,  *)
(* while route refreshes replace the value under it.  Escape leaves it     *)
(* unsaved.  Effects that follow a change of state are part of the step.   *)
(***************************************************************************)
EXTENDS Integers

CONSTANTS
  Values,      \* the cell's values, and the drafts that stand for them
  NoValue      \* nothing is being sent

ASSUME NoValueAssumption == NoValue \notin Values

VARIABLES
  stored,     \* the value in the database
  prop,       \* the value prop, from the last route payload
  draft, editing,
  sending,    \* the value of the POST in flight: pending
  arrived,    \* it has taken effect
  typed,      \* history: the user has typed since the cell was opened
  moved,      \* history: a refresh has replaced prop since then
  blind       \* history: a POST was sent for a cell neither typed in nor moved

cell == <<stored, prop, draft, editing, sending, arrived, typed, moved, blind>>

CellTypeOK ==
  /\ stored \in Values /\ prop \in Values /\ draft \in Values
  /\ sending \in Values \cup {NoValue}
  /\ {editing, arrived, typed, moved, blind} \subseteq BOOLEAN

CellInit ==
  /\ stored \in Values /\ prop = stored /\ draft = stored
  /\ sending = NoValue
  /\ editing = FALSE /\ arrived = FALSE
  /\ typed = FALSE /\ moved = FALSE /\ blind = FALSE

Edit ==
  /\ ~editing
  /\ editing' = TRUE /\ typed' = FALSE /\ moved' = FALSE
  /\ UNCHANGED <<stored, prop, draft, sending, arrived, blind>>

Type(v) ==
  /\ editing /\ sending = NoValue
  /\ draft' = v /\ typed' = TRUE
  /\ UNCHANGED <<stored, prop, editing, sending, arrived, moved, blind>>

\* Faulty: the draft is taken from the prop when the cell is mounted only.
DraftAsMounted(value, isEditing) == draft

\* The effect on value and editing: a cell that is not edited follows its prop.
DraftAfter(value, isEditing) == IF isEditing THEN draft ELSE value

\* Leaving a cell whose draft is the prop sends nothing.
Leave ==
  /\ editing /\ sending = NoValue /\ draft = prop
  /\ editing' = FALSE
  /\ UNCHANGED <<stored, prop, draft, sending, arrived, typed, moved, blind>>

Cancel ==
  /\ editing /\ sending = NoValue
  /\ editing' = FALSE
  /\ draft' = prop
  /\ UNCHANGED <<stored, prop, sending, arrived, typed, moved, blind>>

Save ==
  /\ editing /\ sending = NoValue /\ draft # prop
  /\ sending' = draft /\ arrived' = FALSE
  /\ blind' = (blind \/ (~typed /\ ~moved))
  /\ UNCHANGED <<stored, prop, draft, editing, typed, moved>>

Store ==
  /\ sending # NoValue /\ ~arrived
  /\ stored' = sending /\ arrived' = TRUE
  /\ UNCHANGED <<prop, draft, editing, sending, typed, moved, blind>>

\* The answer: a success refreshes the route later, a failure or a lost answer
\* (of a write that took effect or not) sets the draft back; either way the cell
\* is closed and follows its prop.
Finish ==
  /\ sending # NoValue
  /\ sending' = NoValue /\ editing' = FALSE
  /\ draft' = DraftAfter(prop, FALSE)
  /\ UNCHANGED <<stored, prop, arrived, typed, moved, blind>>

\* A route refresh, after a save here or for any other reason.
Refresh ==
  /\ prop # stored
  /\ prop' = stored
  /\ draft' = DraftAfter(stored, editing)
  /\ moved' = (moved \/ editing)
  /\ UNCHANGED <<stored, editing, sending, arrived, typed, blind>>

\* Another operator writes the cell.
WriteElsewhere(v) ==
  /\ stored' = v
  /\ UNCHANGED <<prop, draft, editing, sending, arrived, typed, moved, blind>>

CellNext ==
  \/ \E v \in Values : Type(v) \/ WriteElsewhere(v)
  \/ Edit \/ Leave \/ Cancel \/ Save \/ Store \/ Finish \/ Refresh

CellSpec == CellInit /\ [][CellNext]_cell

-----------------------------------------------------------------------------
\* Opening a cell and leaving it untyped writes nothing, unless a refresh replaced
\* its value meanwhile: then blur takes the old draft for an edit and writes the
\* old value back over somebody's change.
UntypedWritesNothing == ~blind
=============================================================================
