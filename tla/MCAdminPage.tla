------------------------------ MODULE MCAdminPage ------------------------------
EXTENDS AdminPage, TLC

CONSTANTS x, y, field, flag

\* Forms of a field and a box beside it: each column under each control that fits
\* it; a text and a box of their own under each guard; lists whose visibility the
\* record decides; generated ones.
MCFormFields == {field, flag}

OpenField(column, control, nullable) ==
  [column |-> column, control |-> control, nullable |-> nullable,
   options |-> IF column = "enum" THEN {x, y} ELSE {x},
   hidden |-> "no", role |-> "none", readOnly |-> FALSE, read |-> TRUE, write |-> "unset"]

Guards == {"open", "unread", "denied", "always", "decided", "decidedNot", "withheld",
           "withheldOnly", "readOnly", "readOnlyRole"}

Guarded(s, guard) ==
  CASE guard \in {"open", "generated"} -> s
    [] guard = "unread" -> [s EXCEPT !.read = FALSE]
    [] guard = "denied" -> [s EXCEPT !.write = "deny"]
    [] guard \in {"always", "decided", "decidedNot"} -> [s EXCEPT !.hidden = guard]
    [] guard = "withheld" -> [s EXCEPT !.role = "lacks"]
    [] guard = "withheldOnly" -> [s EXCEPT !.role = "lacks", !.write = "allow"]
    [] guard = "readOnly" -> [s EXCEPT !.readOnly = TRUE]
    [] guard = "readOnlyRole" -> [s EXCEPT !.role = "has", !.readOnly = TRUE]

\* Forms by the guards of the field and of the box beside it.
FormsOf(isDeclared, names) ==
  [n \in names |->
    [declared |-> isDeclared,
     fields |-> (field :> Guarded(OpenField(n.column, n.control, n.nullable), n.guard) @@
                 flag :> Guarded(OpenField("boolean", "checkbox", FALSE), n.beside))]]

Names(columns, guards, besides) ==
  UNION {[column : {c}, control : Fitting(c), nullable : BOOLEAN, guard : guards,
          beside : besides] : c \in columns}

DeclaredNames ==
  LET sample == {n \in Names({"string", "boolean"}, Guards, {"open", "always"}) :
                   n.control \in {"text", "checkbox"}}
      lists == {n \in Names({"json", "array"}, {"decidedNot"}, {"always"}) : n.control = "tags"}
  IN  Names(Columns, {"open"}, {"always"}) \cup lists
      \cup {n \in sample : n.beside = "open" => n.guard \in {"open", "readOnly"}}

\* Generated forms choose the control by themselves.
GeneratedNames ==
  LET columns == {"string", "boolean"}
  IN  {n \in Names(Columns, {"open"}, {"generated"})
               \cup Names(columns, {"unread", "denied"}, {"generated"}) :
         n.control = CHOOSE c \in Fitting(n.column) : TRUE}

AllForms == FormsOf(TRUE, DeclaredNames) @@ FormsOf(FALSE, GeneratedNames)

\* TLC keeps the value of a definition, but not of one that replaces a constant.
MCForms == AllForms

(* A calendar of four months *)

MonthsOfTheYear == <<2, 3, 2, 3>>
RangesInLinks == {[from |-> 4, to |-> NoDay], [from |-> 6, to |-> 3]}
ZonesOfBrowsers == {-1, 1}
=============================================================================
