-------------------------------- MODULE EditForm --------------------------------
(***************************************************************************)
(* The edit form of a record, there and back: the page renders a control   *)
(* for each field and hands it the stored value as text; the browser posts *)
(* what its controls hold; the server decodes that field by field, refuses *)
(* what may not be written, and writes the rest.  Meanwhile others write   *)
(* the record too.                                                         *)
(*                                                                         *)
(* A value has a kind and a content; a text's kind says how its content is *)
(* spelled.  What an input makes of the text it is given is the browser's, *)
(* how a default becomes text the form library's: both are external.       *)
(* Browser and server are taken to be in one time zone.                    *)
(***************************************************************************)
EXTENDS Integers

CONSTANTS
  FormFields,
  Forms,        \* configurations, by a name of each
  Contents,     \* contents of values
  NoContent

Of(kind, content) == [is |-> kind, of |-> content]
Null == Of("null", NoContent)
Blank == Of("blank", NoContent)
On == Of("on", NoContent)
True == Of("true", NoContent)
False == Of("false", NoContent)
NoItems == Of("list", NoContent)
Absent == Of("absent", NoContent)
Invalid == Of("invalid", NoContent)

\* Texts: none, one line, several as stored, as a one-line input joins them and as
\* a form posts them; a number, an instant, a local time, a day; JSON of an object
\* and of a list; a ticked box.
IsText(v) ==
  v.is \in {"blank", "plain", "lines", "joined", "crlf", "digits", "iso", "local",
            "day", "json", "jsonlist", "on"}

\* A field: its column; if the form declares its fields, the control and options,
\* what hidden comes to (a function is decided by the page and unknown to the
\* route), whether the user has the role it requires, and readOnly; and the
\* resource's policy for it.
Columns == {"string", "enum", "number", "boolean", "date", "json", "array"}
Controls == {"text", "textarea", "number", "datetime", "date", "checkbox", "select",
             "radio", "reference", "json", "tags"}

\* The controls that can say what a column holds.
Fitting(column) ==
  CASE column = "string" -> {"text", "textarea", "select", "radio", "reference"}
    [] column = "enum" -> {"select", "radio"}
    [] column = "number" -> {"number", "text", "reference"}
    [] column = "boolean" -> {"checkbox"}
    [] column = "date" -> {"datetime", "date", "text"}
    [] column = "json" -> {"json", "tags"}
    [] column = "array" -> {"tags"}

FieldConfig ==
  {s \in [column : Columns, nullable : BOOLEAN, control : Controls,
          options : SUBSET Contents,
          hidden : {"no", "always", "decided", "decidedNot"},
          role : {"none", "has", "lacks"}, readOnly : BOOLEAN,
          read : BOOLEAN, write : {"unset", "allow", "deny"}] :
     s.control \in Fitting(s.column)}

FormConfig == [declared : BOOLEAN, fields : [FormFields -> FieldConfig]]

ASSUME FormsAssumption == Forms \in [DOMAIN Forms -> FormConfig] /\ NoContent \notin Contents

\* What is written elsewhere.
Stored(s) ==
  (IF s.nullable THEN {Null} ELSE {}) \cup
  CASE s.column = "string" ->
         {Blank} \cup {Of(kind, c) : kind \in {"plain", "lines"}, c \in Contents}
    [] s.column = "enum" -> {Of("plain", c) : c \in Contents}
    [] s.column = "number" -> {Of("number", c) : c \in Contents}
    [] s.column = "boolean" -> {True, False}
    [] s.column = "date" -> {Of("instant", c) : c \in Contents}
    [] s.column = "json" -> {Of("object", c) : c \in Contents}
    [] s.column = "array" -> {Of("list", c) : c \in Contents}

RecordsOf(specs) ==
  {r \in [FormFields -> UNION {Stored(specs[f]) : f \in FormFields}] :
     \A f \in FormFields : r[f] \in Stored(specs[f])}

VARIABLES
  form,         \* the name of the configuration
  record,       \* the record in the database
  controls,     \* the text each control holds
  body,         \* what was posted
  formStage,    \* "closed", "open", "posted", "saved" or "refused"
  elsewhere,    \* fields others wrote since the page was rendered
  \* history
  wish,         \* what the operator put into a control, Absent into none
  found         \* the record the save found

declared == Forms[form].declared
fields == Forms[form].fields

editForm == <<form, record, controls, body, formStage, elsewhere, wish, found>>

NoneOf(v) == [f \in FormFields |-> v]

FormInit ==
  /\ form \in DOMAIN Forms
  /\ record \in RecordsOf(fields)
  /\ found = record
  /\ controls = NoneOf(Blank) /\ body = NoneOf(Absent) /\ wish = NoneOf(Absent)
  /\ formStage = "closed" /\ elsewhere = {}

-----------------------------------------------------------------------------
(* The page *)

inputTypeFor(column) ==
  CASE column = "enum" -> "select"
    [] column = "number" -> "number"
    [] column = "boolean" -> "checkbox"
    [] column = "date" -> "datetime"
    [] column = "json" -> "json"
    [] OTHER -> "text"

ControlOf(s) == IF declared THEN s.control ELSE inputTypeFor(s.column)

Rendered(s) ==
  declared => s.role # "lacks" /\ s.hidden \in {"no", "decidedNot"}

ReadOnly(s) == declared /\ s.readOnly

\* A default as text: of a structure there is none, of a date the instant.
TextOf(v) ==
  CASE v = True -> On
    [] v.is \in {"null", "false", "object", "list"} -> Blank
    [] v.is = "number" -> Of("digits", v.of)
    [] v.is = "instant" -> Of("iso", v.of)
    [] OTHER -> v

\* Only what the user may read is a default.
RenderForm ==
  /\ formStage \notin {"open", "posted"}
  /\ controls' = [f \in FormFields |->
                LET s == fields[f] IN
                IF Rendered(s) /\ s.read THEN TextOf(record[f]) ELSE Blank]
  /\ formStage' = "open"
  /\ body' = NoneOf(Absent) /\ wish' = NoneOf(Absent) /\ elsewhere' = {}
  /\ UNCHANGED <<form, record, found>>

-----------------------------------------------------------------------------
(* The browser *)

\* What an input shows of the text it is given: one of a type drops texts of
\* another, a line has no breaks, a choice that is not offered is none.
Shown(s, text) ==
  LET control == ControlOf(s)
      type == CASE control = "number" -> {"digits"}
                [] control = "datetime" -> {"local"}
                [] control = "date" -> {"day"}
                [] control = "checkbox" -> {"on"}
                [] control \in {"select", "radio"} ->
                     IF text.of \in s.options THEN {"plain"} ELSE {}
                [] OTHER -> {text.is}
  IN  CASE text.is \notin type -> Blank
        [] control = "text" /\ text.is \in {"lines", "crlf"} -> Of("joined", text.of)
        [] OTHER -> text

\* A read-only choice is disabled and posts what it was given from a hidden input.
\* A box that is clear and radios without a choice post nothing.  Line breaks are
\* posted as CRLF.
Posted(s, text) ==
  LET control == ControlOf(s)
      shown == IF ReadOnly(s) /\ control \in {"select", "radio"} THEN text ELSE Shown(s, text)
      silent == shown = Blank /\ control \in {"checkbox", "radio"}
  IN  CASE ~Rendered(s) \/ silent -> Absent
        [] Rendered(s) /\ shown.is = "lines" -> Of("crlf", shown.of)
        [] OTHER -> shown

\* What an operator may put into a control, and the value it stands for.
Entries(s) ==
  LET control == ControlOf(s)
      entries(texts, kind) == {[text |-> Of(texts, c), value |-> Of(kind, c)] : c \in Contents}
      line == CASE s.column = "number" -> entries("digits", "number")
                [] s.column = "date" -> entries("iso", "instant")
                [] OTHER -> entries("plain", "plain")
      choices == {e \in entries("plain", "plain") : e.text.of \in s.options}
      cleared == {[text |-> Blank, value |-> Null]}
  IN  CASE control \in {"text", "reference"} -> line \cup cleared
        [] control = "textarea" -> line \cup entries("lines", "lines") \cup cleared
        [] control = "number" -> entries("digits", "number") \cup cleared
        [] control = "datetime" -> entries("local", "instant") \cup cleared
        [] control = "date" -> entries("day", "instant") \cup cleared
        [] control = "checkbox" -> {[text |-> On, value |-> True], [text |-> Blank, value |-> False]}
        [] control = "select" -> choices \cup cleared
        [] control = "radio" -> choices
        [] control = "json" -> entries("json", "object")
        [] control = "tags" -> entries("jsonlist", "list")

Enter(f) ==
  /\ formStage = "open"
  /\ Rendered(fields[f]) /\ ~ReadOnly(fields[f])
  /\ \E e \in Entries(fields[f]) :
       /\ e.text # Shown(fields[f], controls[f])
       /\ controls' = [controls EXCEPT ![f] = e.text]
       /\ wish' = [wish EXCEPT ![f] = e.value]
  /\ UNCHANGED <<form, record, body, formStage, elsewhere, found>>

SubmitForm ==
  /\ formStage = "open"
  /\ body' = [f \in FormFields |-> Posted(fields[f], controls[f])]
  /\ formStage' = "posted"
  /\ UNCHANGED <<form, record, controls, elsewhere, wish, found>>

-----------------------------------------------------------------------------
(* The server *)

\* Faulty: a clear box is taken for a control that was not there.
ShapesWithoutBoxes(s) ==
  IF declared /\ s.hidden = "no"
  THEN CASE s.control = "tags" -> "list" [] s.control = "number" -> "number" [] OTHER -> "text"
  ELSE "none"

\* As what a field's text is read: as what its control posts where the route takes
\* the control for rendered, and as it came otherwise.  The role a field requires
\* is not asked for.
renderedFieldShapes(s) ==
  CASE ~declared -> IF s.column = "boolean" THEN "boolean" ELSE "none"
    [] declared /\ s.hidden # "no" -> "none"
    [] OTHER -> CASE s.control = "tags" -> "list"
                  [] s.control = "checkbox" -> "boolean"
                  [] s.control = "number" -> "number"
                  [] OTHER -> "text"

readFormValues(s, posted) ==
  LET shape == renderedFieldShapes(s)
      text == IF posted = Absent THEN Blank ELSE posted
  IN  CASE shape = "none" -> posted
        [] shape = "list" -> IF text.is = "jsonlist" THEN Of("list", text.of) ELSE NoItems
        [] shape = "boolean" -> IF text = On THEN True ELSE False
        [] shape = "number" /\ text # Blank ->
             IF text.is = "digits" THEN Of("number", text.of) ELSE Invalid
        [] OTHER -> text

\* A blank text is null, or left out of the write where the column takes no null.
coerceRowByColumns(s, v) ==
  IF v = Blank THEN IF s.nullable THEN Null ELSE Absent
  ELSE CASE ~IsText(v) \/ s.column \notin {"number", "boolean", "date"} -> v
         [] IsText(v) /\ s.column = "number" /\ v.is = "digits" -> Of("number", v.of)
         [] IsText(v) /\ s.column = "date" /\ v.is \in {"iso", "local", "day"} ->
              Of("instant", v.of)
         [] OTHER -> Invalid

Input(f) ==
  coerceRowByColumns(fields[f], readFormValues(fields[f], body[f]))

\* The resource's policy decides if it speaks of the field, then the role the field
\* requires, and only then readOnly.
effectiveFieldPolicies(s) ==
  CASE s.write # "unset" -> s.write = "allow"
    [] s.write = "unset" /\ declared /\ s.role # "none" -> s.role = "has"
    [] OTHER -> ~ReadOnly(s)

\* The schema inferred from the columns: JSON may be any value.
inferSchema(s, v) ==
  IF v = Null THEN s.nullable
  ELSE CASE s.column \in {"string", "enum"} -> IsText(v)
         [] s.column = "number" -> v.is = "number"
         [] s.column = "boolean" -> v \in {True, False}
         [] s.column = "date" -> v.is = "instant"
         [] s.column = "json" -> v # Invalid
         [] s.column = "array" -> v.is = "list"

Accepts(f) ==
  Input(f) # Absent =>
    effectiveFieldPolicies(fields[f]) /\ inferSchema(fields[f], Input(f))

\* A field that is not accepted refuses the form; none is stripped.
SaveForm ==
  /\ formStage = "posted"
  /\ found' = record
  /\ \/ /\ \A f \in FormFields : Accepts(f)
        /\ record' = [f \in FormFields |-> IF Input(f) = Absent THEN record[f] ELSE Input(f)]
        /\ formStage' = "saved"
     \/ /\ \E f \in FormFields : ~Accepts(f)
        /\ formStage' = "refused"
        /\ UNCHANGED record
  /\ UNCHANGED <<form, controls, body, elsewhere, wish>>

\* Somebody else writes the record while the form is open (bound: once).
WriteUnderForm(f) ==
  /\ formStage \in {"open", "posted"}
  /\ elsewhere = {}
  /\ \E v \in Stored(fields[f]) : v # record[f] /\ record' = [record EXCEPT ![f] = v]
  /\ elsewhere' = {f}
  /\ UNCHANGED <<form, controls, body, formStage, wish, found>>

FormNext ==
  \/ RenderForm \/ SubmitForm \/ SaveForm
  \/ \E f \in FormFields : Enter(f) \/ WriteUnderForm(f)

FormSpec == FormInit /\ [][FormNext]_editForm

-----------------------------------------------------------------------------
(* Properties *)

\* The kinds of a column's values that have a content.  A line is joined by an input
\* of one line, and its breaks become CRLF where a form posts them as they are.
Filled(s) ==
  CASE s.column = "string" ->
         {"plain", "lines"}
           \cup (IF ControlOf(s) = "text" THEN {"joined"} ELSE {})
           \cup (IF ControlOf(s) \in {"select", "radio"} /\ ~ReadOnly(s) THEN {} ELSE {"crlf"})
    [] s.column = "enum" -> {"plain"}
    [] s.column = "number" -> {"number"}
    [] s.column = "boolean" -> {}
    [] s.column = "date" -> {"instant"}
    [] s.column = "json" -> {"object", "list", "json", "jsonlist"}
    [] s.column = "array" -> {"list"}

\* What a column holds, of what was written elsewhere or by the form.
Holds(s) ==
  (IF s.nullable THEN {Null} ELSE {})
  \cup (IF s.column = "string" THEN {Blank} ELSE {})
  \cup (IF s.column = "boolean" THEN {True, False} ELSE {})
  \cup (IF s.column \in {"json", "array"} THEN {NoItems} ELSE {})
  \cup {Of(kind, c) : kind \in Filled(s), c \in Contents}

FormTypeOK ==
  /\ form \in DOMAIN Forms
  /\ formStage \in {"closed", "open", "posted", "saved", "refused"}
  /\ \A f \in FormFields :
       /\ IsText(controls[f]) /\ (IsText(body[f]) \/ body[f] = Absent)
       /\ record[f] \in Holds(fields[f])
  /\ elsewhere \subseteq FormFields

\* What its control shows and posts as it is: not a structure, a list, line breaks,
\* a date in an input for dates, a value that is not offered or not the user's to
\* read; nor a null apart from false, nor an empty text apart from null.
Presentable(s, v) ==
  /\ s.read
  /\ v.is \notin {"object", "list", "lines"}
  /\ v.is = "crlf" => ControlOf(s) # "text"
  /\ v.is = "instant" => ControlOf(s) \notin {"datetime", "date"}
  /\ ControlOf(s) \in {"select", "radio"} /\ v.of \in Contents => v.of \in s.options
  /\ ControlOf(s) # "tags"
  /\ v = Null => s.column # "boolean"
  /\ v = Blank => ~s.nullable

\* A field the operator left alone keeps the value the save found, unless others
\* wrote it meanwhile, or its control could not show the value, or the role it
\* requires withheld the control.
LeftAlone(f) ==
  LET s == fields[f] IN
  \/ record[f] = found[f]
  \/ Rendered(s) /\ (f \in elsewhere \/ ~Presentable(s, found[f]))
  \/ declared /\ s.role = "lacks"

\* What was put into a control is stored: an object as its text, line breaks as
\* CRLF, a list as its text where the record decides on its visibility; a field that
\* takes no null cannot be cleared, nor a box whose visibility the record decides.
TakenOver(f) ==
  LET s == fields[f] IN
  \/ record[f] = wish[f]
  \/ wish[f].is = "object" /\ record[f] = Of("json", wish[f].of)
  \/ wish[f].is = "lines" /\ record[f] = Of("crlf", wish[f].of)
  \/ /\ wish[f].is = "list" /\ record[f] = Of("jsonlist", wish[f].of)
     /\ declared /\ s.hidden = "decidedNot"
  \/ /\ record[f] = found[f]
     /\ \/ wish[f] = Null /\ ~s.nullable
        \/ wish[f] = False /\ declared /\ s.hidden = "decidedNot"

\* A saved form wrote what the operator saw and entered, up to the exceptions named
\* above, and one of fitting controls is refused only for a field that is not the
\* operator's to write, for a box or a list whose visibility the record decides, or
\* for the text input a list gets where the form is generated (resource-form.ts,
\* form-values.ts, coerce-values.ts, field-pipeline.ts).
SavingIsTrue ==
  /\ formStage = "saved" =>
       \A f \in FormFields : IF wish[f] = Absent THEN LeftAlone(f) ELSE TakenOver(f)
  /\ formStage = "refused" =>
       \E f \in FormFields :
         LET s == fields[f] IN
         \/ ~effectiveFieldPolicies(s)
         \/ declared /\ s.column \in {"boolean", "array"} /\ s.hidden = "decidedNot"
         \/ ~declared /\ s.column = "array"
=============================================================================
