------------------------------- MODULE AdminPage -------------------------------
(***************************************************************************)
(* The pieces of a page in the browser that keep state of their own: the   *)
(* pooled realtime connections, the record drawer, an editable cell, the   *)
(* list's URL with its search box, its table, a remote picker, the edit    *)
(* form, a filter of days and the buttons of actions.  They share the     *)
(* route refresh, which any of them may cause at any time and which each   *)
(* piece therefore admits at any time; so one piece moves in a behavior    *)
(* and the others rest.                                                    *)
(***************************************************************************)
EXTENDS LiveChannelPool, DrawerSession, InlineEdit, ListUrl, TableSession,
        AsyncSelect, EditForm, DateRanges, ActionMenu

VARIABLE piece    \* the piece that moves

page == <<piece, vars, drawer, cell, list, table, picker, editForm, dates, menu>>

Pieces ==
  {"connections", "drawer", "cell", "list", "table", "picker", "form", "dates",
   "menu"}

PageTypeOK ==
  /\ piece \in Pieces
  /\ TypeOK /\ DrawerTypeOK /\ CellTypeOK /\ ListTypeOK
  /\ TableTypeOK /\ PickerTypeOK /\ FormTypeOK /\ MenuTypeOK

\* A piece at rest has one value.
CellRests == stored = CHOOSE v \in Values : TRUE
ListRests == url = [q |-> NoText, filter |-> CHOOSE f \in Filters : TRUE, page |-> 1]
TableRests == layout = "table" /\ rows = <<>>
FormRests ==
  /\ form = CHOOSE c \in DOMAIN Forms : TRUE
  /\ record = CHOOSE r \in RecordsOf(fields) : TRUE

DatesRest == zone = (CHOOSE z \in Zones : TRUE) /\ wide = TRUE

MenuRests ==
  /\ kind = "row"
  /\ actions = [a \in Actions |-> [inline |-> TRUE, asks |-> "form"]]

PageInit ==
  /\ piece \in Pieces
  /\ Init /\ DrawerInit /\ PickerInit
  /\ (piece = "cell" \/ CellRests) /\ CellInit
  /\ (piece = "list" \/ ListRests) /\ ListInit
  /\ (piece = "table" \/ TableRests) /\ TableInit
  /\ (piece = "form" \/ FormRests) /\ FormInit
  /\ (piece = "dates" \/ DatesRest) /\ DatesInit
  /\ (piece = "menu" \/ MenuRests) /\ MenuInit

PageNext ==
  /\ UNCHANGED piece
  /\ \/ /\ piece = "connections" /\ Next
        /\ UNCHANGED <<drawer, cell, list, table, picker, editForm, dates, menu>>
     \/ /\ piece = "drawer" /\ DrawerNext
        /\ UNCHANGED <<vars, cell, list, table, picker, editForm, dates, menu>>
     \/ /\ piece = "cell" /\ CellNext
        /\ UNCHANGED <<vars, drawer, list, table, picker, editForm, dates, menu>>
     \/ /\ piece = "list" /\ ListNext
        /\ UNCHANGED <<vars, drawer, cell, table, picker, editForm, dates, menu>>
     \/ /\ piece = "table" /\ TableNext
        /\ UNCHANGED <<vars, drawer, cell, list, picker, editForm, dates, menu>>
     \/ /\ piece = "picker" /\ PickerNext
        /\ UNCHANGED <<vars, drawer, cell, list, table, editForm, dates, menu>>
     \/ /\ piece = "form" /\ FormNext
        /\ UNCHANGED <<vars, drawer, cell, list, table, picker, dates, menu>>
     \/ /\ piece = "dates" /\ DatesNext
        /\ UNCHANGED <<vars, drawer, cell, list, table, picker, editForm, menu>>
     \/ /\ piece = "menu" /\ MenuNext
        /\ UNCHANGED <<vars, drawer, cell, list, table, picker, editForm, dates>>

PageSpec == PageInit /\ [][PageNext]_page
=============================================================================
