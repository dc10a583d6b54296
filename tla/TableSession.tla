----------------------------- MODULE TableSession ------------------------------
(***************************************************************************)
(* A list's table in the browser: the rows the server last answered with,  *)
(* the ticked rows, which outlive pages and refreshes, the keyboard's      *)
(* cursor, which is a position and not a row, and the bar that runs a bulk *)
(* action.  A refresh may bring any rows: other operators write, and any   *)
(* piece of the page may cause it.                                         *)
(***************************************************************************)
EXTENDS Integers, Sequences, SequencesExt

CONSTANTS
  Rows,       \* identifiers of rows
  NoRow,
  PageSize    \* pageSize

ASSUME NoRowAssumption == NoRow \notin Rows
ASSUME PageSizeAssumption == PageSize \in Nat \ {0}

VARIABLES
  layout,     \* the table, or the cards of a narrow window
  rows,       \* the rows shown
  selection,  \* the ticked rows
  cursor,     \* position of the keyboard's row, 0 for none
  pointed,    \* history: the row the cursor was put on
  running     \* a bulk action waits for its answer

table == <<layout, rows, selection, cursor, pointed, running>>

\* What a page can hold: some rows, each once.
RowLists == {s \in SeqOf(Rows, PageSize) : IsInjective(s)}

TableTypeOK ==
  /\ layout \in {"table", "cards"}
  /\ rows \in RowLists
  /\ selection \in SUBSET Rows
  /\ cursor \in 0..Len(rows)
  /\ pointed \in Rows \cup {NoRow}
  /\ running \in BOOLEAN

TableInit ==
  /\ layout \in {"table", "cards"}
  /\ rows \in RowLists
  /\ selection = {}
  /\ cursor = 0 /\ pointed = NoRow
  /\ running = FALSE

-----------------------------------------------------------------------------
(* The rows change *)

\* Faulty: the length and the first row tell one page from another.
SameHead(old, new) ==
  Len(old) = Len(new) /\ (old # <<>> => old[1] = new[1])

\* rowsSignature: the length, the first and the last row.
SameRows(old, new) ==
  /\ Len(old) = Len(new)
  /\ old # <<>> => old[1] = new[1] /\ old[Len(old)] = new[Len(new)]

\* New rows: the cursor leaves when their signature is another one.
Show(new) ==
  /\ rows' = new
  /\ IF SameRows(rows, new) THEN UNCHANGED <<cursor, pointed>>
     ELSE cursor' = 0 /\ pointed' = NoRow

RowsChange ==
  /\ \E new \in RowLists : Show(new)
  /\ UNCHANGED <<layout, selection, running>>

Resize ==
  /\ layout' = IF layout = "table" THEN "cards" ELSE "table"
  /\ UNCHANGED <<rows, selection, cursor, pointed, running>>

-----------------------------------------------------------------------------
(* The selection and the bulk bar *)

OnPage == ToSet(rows)
AllOnPageSelected == rows # <<>> /\ OnPage \subseteq selection

Select(ids) ==
  /\ selection' = ids
  /\ UNCHANGED <<layout, rows, cursor, pointed, running>>

ToggleRow ==
  \E r \in OnPage : Select(IF r \in selection THEN selection \ {r} ELSE selection \cup {r})

\* The header's box; cards have no header.
ToggleAll ==
  /\ layout = "table" /\ rows # <<>>
  /\ Select(IF AllOnPageSelected THEN selection \ OnPage ELSE selection \cup OnPage)

\* Clear waits for a running action; the boxes of the rows do not.
ClearSelection == selection # {} /\ ~running /\ Select({})

RunBulk ==
  /\ selection # {} /\ ~running
  /\ running' = TRUE
  /\ UNCHANGED <<layout, rows, selection, cursor, pointed>>

\* It succeeded, and the selection of this moment is cleared; or it failed,
\* redirects or asks for no refresh, and the selection stays.
BulkAnswered ==
  /\ running
  /\ running' = FALSE
  /\ selection' \in {{}, selection}
  /\ UNCHANGED <<layout, rows, cursor, pointed>>

-----------------------------------------------------------------------------
(* The keyboard *)

PointAt(i) ==
  /\ cursor' = i
  /\ pointed' = IF i = 0 THEN NoRow ELSE rows[i]
  /\ UNCHANGED <<layout, rows, selection, running>>

InTable == layout = "table" /\ rows # <<>>

\* The table gets the focus: the cursor lands on the first row.
Focus == InTable /\ cursor = 0 /\ PointAt(1)
CursorDown == InTable /\ cursor < Len(rows) /\ PointAt(cursor + 1)
CursorUp == InTable /\ cursor # 1 /\ PointAt(IF cursor = 0 THEN 1 ELSE cursor - 1)
CursorToFirst == InTable /\ PointAt(1)
CursorToLast == InTable /\ PointAt(Len(rows))
ClickRow == InTable /\ \E i \in DOMAIN rows : PointAt(i)
LeaveRow == InTable /\ cursor # 0 /\ PointAt(0)

TableNext ==
  \/ RowsChange \/ Resize
  \/ ToggleRow \/ ToggleAll \/ ClearSelection \/ RunBulk \/ BulkAnswered
  \/ Focus \/ CursorDown \/ CursorUp \/ CursorToFirst \/ CursorToLast
  \/ ClickRow \/ LeaveRow

-----------------------------------------------------------------------------
(* Properties *)

\* Enter, e and d act on the row the operator put the cursor on, however often the
\* rows were refreshed since; only between the first row and the last one may
\* another row have moved under the cursor.
CursorKeepsItsRow ==
  cursor # 0 =>
    /\ cursor <= Len(rows)
    /\ rows[cursor] = pointed \/ (1 < cursor /\ cursor < Len(rows))
=============================================================================
