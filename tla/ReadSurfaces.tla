----------------------------- MODULE ReadSurfaces ------------------------------
(***************************************************************************)
(* What one resource shows and to whom: the list page, the JSON API, the   *)
(* detail page, the drawer, the edit page, and reads on behalf of another  *)
(* resource (related tab, reference search, reference labels, ctx.count).  *)
(* Each has its own guards, projection and list controls.  Field policies  *)
(* may be callbacks that answer differently a moment later, other          *)
(* operators write, and a request awaits between its steps.                *)
(***************************************************************************)
EXTENDS Integers, FiniteSets

CONSTANTS
  Rows, Fields, Values,
  Mine,          \* the rows inside the caller's scope
  Key, Gone,     \* the row key; the soft-delete column
  Live,          \* the value of Gone in a row that is not deleted
  Dynamic,       \* fields whose read policy is a callback that may change its mind
  Configs,       \* resource configurations
  Requests,      \* what may be asked: a surface, a row, list controls
  Databases,     \* initial contents
  NoField, NoText, NoRow,
  MaxChanges     \* bound on policy changes and other operators' writes

Database == [Rows -> [Fields -> Values]]
Lists == {"columns", "expose", "filters", "search", "drawer", "detail", "tab", "form"}
Surfaces == {"listPage", "jsonList", "jsonGet", "drawer", "detail", "edit",
             "related", "references", "count"}

Config == [declared : [Lists -> SUBSET Fields], defaultSort : Fields \cup {NoField},
           softDelete : BOOLEAN, scope : {"predicate", "bypass", "missing"},
           role : BOOLEAN, access : [{"read", "update"} -> BOOLEAN],
           hidden : BOOLEAN, counts : BOOLEAN]

\* A filter is the field and the values it admits.
Filter == [field : Fields, admits : SUBSET Values]

Request == [surface : Surfaces, id : Rows \cup {NoRow}, filters : SUBSET Filter,
            sort : Fields \cup {NoField}, text : Values \cup {NoText},
            extra : SUBSET Fields, deleted : BOOLEAN]

ASSUME ReadAssumption ==
  /\ Key \in Fields /\ Gone \in Fields /\ Live \in Values
  /\ Mine \subseteq Rows /\ Dynamic \subseteq Fields /\ Values \subseteq Int
  /\ NoField \notin Fields /\ NoText \notin Values /\ NoRow \notin Rows
  /\ Configs \subseteq Config /\ Requests \subseteq Request
  /\ Databases \subseteq Database
  /\ MaxChanges \in Nat

\* Only the list page can be asked for deleted rows, and a count takes no search.
ASSUME RequestsAssumption ==
  \A r \in Requests :
    /\ r.deleted => r.surface = "listPage"
    /\ r.surface = "count" => r.text = NoText

VARIABLES
  config,      \* the resource's options, and what the caller's role passes
  db,
  readable,    \* the fields the read policies allow at this moment
  everReadable,\* history: allowed at some moment of this request
  changes,     \* policy changes and writes so far
  req,         \* the request, as its handler still sees it
  pc,
  query,       \* what the adapter is asked
  answer       \* what leaves the server

vars == <<config, db, readable, everReadable, changes, req, pc, query, answer>>

NoRequest == [surface |-> "count", id |-> NoRow, filters |-> {}, sort |-> NoField,
              text |-> NoText, extra |-> {}, deleted |-> FALSE]
NoQuery == [id |-> NoRow, select |-> {}, filters |-> {}, sort |-> NoField,
            search |-> {}, text |-> NoText, hides |-> FALSE, scoped |-> FALSE,
            later |-> {}, void |-> TRUE]
NoAnswer == [rows |-> {}, shown |-> <<>>, before |-> {}]

-----------------------------------------------------------------------------
(* What the configuration declares *)

Declared(lists) == UNION {config.declared[l] : l \in lists}
declaredRowFields == Declared({"columns", "expose"}) \cup {Key}

\* Faulty: the drawer loads the row key and its own fields only.
DrawerFieldsOnly == {Key} \cup Declared({"drawer"})

declaredDrawerRowFields == declaredRowFields \cup Declared({"drawer"})
declaredDetailBaseFields == declaredRowFields \cup Declared({"detail"})
declaredDetailPolicyFields == declaredDetailBaseFields \cup Declared({"tab"})
declaredFieldSet ==
  Declared({"columns", "filters", "search"}) \cup ({config.defaultSort} \ {NoField})

editProjectionCandidates == Declared({"form"})

\* The fields a surface may send, before the read policy has its say.
Projection(r) ==
  CASE r.surface \in {"listPage", "jsonList", "jsonGet"} -> declaredRowFields
    [] r.surface = "drawer" -> declaredDrawerRowFields
    [] r.surface = "detail" -> IF config.hidden THEN declaredDetailBaseFields
                                                ELSE declaredDetailPolicyFields
    [] r.surface = "edit" -> editProjectionCandidates
    [] r.surface \in {"related", "references"} -> declaredRowFields \cup r.extra
    [] r.surface = "count" -> {}

Related == {"related", "references", "count"}
Listing == {"listPage", "jsonList"}

\* The resource's predicate is bound to the caller's tenant.
applyScope == config.scope = "predicate"

\* Role, then the operation's access rule, then the scope the resource must state.
Allowed(r) ==
  /\ config.role
  /\ config.access[IF r.surface = "edit" THEN "update" ELSE "read"]
  /\ config.scope # "missing"

-----------------------------------------------------------------------------
(* The query each surface builds *)

\* List controls: what is not readable or not declared is taken out.
Kept(r, allowed) == {f \in r.filters : f.field \in declaredFieldSet \cap allowed}
SortOf(r, allowed) ==
  LET wanted == IF r.sort = NoField \/ r.surface = "jsonList"
                THEN config.defaultSort ELSE r.sort
  IN  IF wanted \in declaredFieldSet \cap allowed THEN wanted ELSE NoField

OwnQuery(r, allowed) ==
  LET searchFields == config.declared["search"] \cap allowed
  IN  [id |-> r.id,
       select |-> Projection(r) \cap allowed,
       filters |-> IF r.surface \in Listing THEN Kept(r, allowed) ELSE {},
       sort |-> IF r.surface \in Listing THEN SortOf(r, allowed) ELSE NoField,
       search |-> IF r.surface \in Listing THEN searchFields ELSE {},
       text |-> IF r.surface \in Listing /\ searchFields # {} THEN r.text ELSE NoText,
       hides |-> /\ r.surface \in Listing /\ config.softDelete
                 /\ ~(r.surface = "listPage" /\ r.deleted),
       scoped |-> applyScope,
       later |-> IF r.surface = "detail" THEN declaredDetailPolicyFields \cap allowed
                                         ELSE {},
       void |-> FALSE]

\* Faulty: a related read sorts by the field it was told to.
RelatedSortAsTold(r, allowed) == r.sort

RelatedSort(r, allowed) == IF r.sort \in allowed THEN r.sort ELSE NoField

\* A related read's constraints are the caller's: one that may not be used empties
\* the result instead of widening it.  With text, extra names the label searched.
RelatedQuery(r, allowed) ==
  LET wanted == IF r.text = NoText THEN {} ELSE r.extra
      searchFields == wanted \cap allowed
  IN  [id |-> NoRow,
       select |-> Projection(r) \cap allowed,
       filters |-> {f \in r.filters : f.field \in allowed},
       sort |-> RelatedSort(r, allowed),
       search |-> searchFields,
       text |-> IF searchFields = {} THEN NoText ELSE r.text,
       hides |-> config.softDelete /\ r.surface # "references",
       scoped |-> applyScope,
       later |-> {},
       void |-> \/ \E f \in r.filters : f.field \notin allowed
                \/ wanted # {} /\ searchFields = {}]

\* Straight to adapter.count, which takes a filter map: a filter that names the
\* soft-delete column takes the place of the one that hides deleted rows.
DirectCount(r, allowed) ==
  [id |-> NoRow, select |-> {}, filters |-> {f \in r.filters : f.field \in allowed},
   sort |-> NoField, search |-> {}, text |-> NoText,
   hides |-> config.softDelete /\ \A f \in r.filters : f.field # Gone,
   scoped |-> FALSE,
   later |-> {},
   void |-> \E f \in r.filters : f.field \notin allowed]

\* Faulty: the scope does not keep a count off the direct path.
CountsWhenever == config.counts

CountsDirectly == config.counts /\ ~applyScope

QueryOf(r, allowed) ==
  IF r.surface = "count" /\ CountsDirectly THEN DirectCount(r, allowed)
  ELSE IF r.surface \in Related THEN RelatedQuery(r, allowed)
  ELSE OwnQuery(r, allowed)

-----------------------------------------------------------------------------
(* What the adapter answers *)

Matches(q, r, d) ==
  /\ ~q.void
  /\ q.id # NoRow => r = q.id
  /\ \A f \in q.filters : d[r][f.field] \in f.admits
  /\ q.text # NoText => \E f \in q.search : d[r][f] = q.text
  /\ q.hides => d[r][Gone] = Live
  /\ q.scoped => r \in Mine

Found(q, d) == {r \in Rows : Matches(q, r, d)}

Answer(q, d) ==
  [rows |-> Found(q, d),
   shown |-> [r \in Found(q, d) |-> [f \in q.select |-> d[r][f]]],
   before |-> IF q.sort = NoField THEN {}
              ELSE {p \in Found(q, d) \X Found(q, d) : d[p[1]][q.sort] < d[p[2]][q.sort]}]

-----------------------------------------------------------------------------
Init ==
  /\ config \in Configs /\ db \in Databases
  /\ readable \in SUBSET Fields /\ Fields \ {Gone} \subseteq readable \cup Dynamic
  /\ everReadable = readable
  /\ changes = 0
  /\ req = NoRequest /\ pc = "idle" /\ query = NoQuery /\ answer = NoAnswer

Ask(r) ==
  /\ pc = "idle"
  /\ req' = r /\ pc' = "asked"
  /\ everReadable' = readable
  /\ UNCHANGED <<config, db, readable, changes, query, answer>>

\* A refusal is the end of it; a related read degrades to null.
Authorize ==
  /\ pc = "asked"
  /\ pc' = IF ~Allowed(req) THEN "done"
           ELSE IF req.surface = "jsonList" THEN "sifting" ELSE "resolving"
  /\ UNCHANGED <<config, db, readable, everReadable, changes, req, query, answer>>

\* The JSON API's handler drops what it may not use before the controller does.
Sift ==
  /\ pc = "sifting"
  /\ req' = [req EXCEPT !.filters = Kept(req, readable),
                        !.text = IF config.declared["search"] \cap readable = {}
                                 THEN NoText ELSE @]
  /\ pc' = "resolving"
  /\ UNCHANGED <<config, db, readable, everReadable, changes, query, answer>>

Resolve ==
  /\ pc = "resolving"
  /\ query' = QueryOf(req, readable)
  /\ pc' = "ready"
  /\ UNCHANGED <<config, db, readable, everReadable, changes, req, answer>>

Read ==
  /\ pc = "ready"
  /\ answer' = Answer(query, db)
  /\ pc' = CASE req.surface \in {"jsonList", "jsonGet"} -> "projecting"
             [] req.surface = "detail" /\ config.hidden -> "tabbing"
             [] OTHER -> "done"
  /\ UNCHANGED <<config, db, readable, everReadable, changes, req, query>>

\* The controller asks the policies again before its rows leave.
Project ==
  /\ pc = "projecting"
  /\ answer' = [answer EXCEPT !.shown =
                  [r \in answer.rows |-> [f \in query.select \cap readable |-> @[r][f]]]]
  /\ pc' = "done"
  /\ UNCHANGED <<config, db, readable, everReadable, changes, req, query>>

\* hidden, the tab's predicate, sees the projected base row: here it hides the tab
\* of a row that is not live, and of one it cannot see that of.
TabHidden(a) ==
  \A r \in a.rows : Gone \in DOMAIN a.shown[r] => a.shown[r][Gone] # Live

\* A tab with a predicate is read for apart, with the policies as they were resolved
\* for the first read; the row may have changed or gone by then.
TabQuery == [query EXCEPT !.select = query.later]

ReadTab ==
  /\ pc = "tabbing"
  /\ answer' = IF TabHidden(answer) \/ query.later \subseteq query.select
               THEN answer ELSE Answer(TabQuery, db)
  /\ pc' = "done"
  /\ UNCHANGED <<config, db, readable, everReadable, changes, req, query>>

End ==
  /\ pc = "done"
  /\ req' = NoRequest /\ pc' = "idle" /\ query' = NoQuery /\ answer' = NoAnswer
  /\ UNCHANGED <<config, db, readable, everReadable, changes>>

\* A policy callback answers otherwise from now on.
ChangePolicy(f) ==
  /\ pc # "idle" /\ changes < MaxChanges
  /\ readable' = IF f \in readable THEN readable \ {f} ELSE readable \cup {f}
  /\ everReadable' = everReadable \cup readable'
  /\ changes' = changes + 1
  /\ UNCHANGED <<config, db, req, pc, query, answer>>

\* Another operator writes; keys do not change.
Write(r, f, v) ==
  /\ pc # "idle" /\ changes < MaxChanges
  /\ db' = [db EXCEPT ![r][f] = v]
  /\ changes' = changes + 1
  /\ UNCHANGED <<config, readable, everReadable, req, pc, query, answer>>

Next ==
  \/ \E r \in Requests : Ask(r)
  \/ Authorize \/ Sift \/ Resolve \/ Read \/ Project \/ ReadTab \/ End
  \/ \E f \in Dynamic : ChangePolicy(f)
  \/ \E r \in Rows, f \in Fields \ {Key}, v \in Values : Write(r, f, v)

Spec == Init /\ [][Next]_vars

-----------------------------------------------------------------------------
SurfaceTypeOK ==
  /\ config \in Config /\ db \in Database
  /\ readable \subseteq Fields /\ everReadable \subseteq Fields
  /\ changes \in 0 .. MaxChanges
  /\ req \in Request
  /\ pc \in {"idle", "asked", "sifting", "resolving", "ready", "projecting", "tabbing", "done"}
  /\ query.select \subseteq Fields /\ query.later \subseteq Fields
  /\ query.search \subseteq Fields /\ query.filters \subseteq Filter
  /\ query.sort \in Fields \cup {NoField}

\* Whatever a field that was never readable during the request holds in any row,
\* every surface gives the same rows, in the same order, with the same contents:
\* neither a projection nor a filter, sort, search or count lets it be told.  Only
\* whether a row is deleted shows where deleted rows are hidden.
UnreadableHasNoSay ==
  pc \in {"ready", "tabbing"} =>
    LET q == IF pc = "ready" THEN query ELSE TabQuery
    IN  \A r \in Rows, v \in Values,
           f \in Fields \ (everReadable \cup (IF q.hides THEN {Gone} ELSE {})) :
          Answer(q, [db EXCEPT ![r][f] = v]) = Answer(q, db)

\* Nothing outside the caller's scope is read, related reads and counts included;
\* a list that was not asked for deleted rows has none.
RowsAreTheCallers ==
  pc \in {"ready", "tabbing"} =>
    \A r \in Found(query, db) :
      /\ config.scope = "predicate" => r \in Mine
      /\ config.softDelete /\ req.surface \in {"listPage", "jsonList", "related"}
           /\ ~req.deleted => db[r][Gone] = Live

\* Between requests, with nothing changing: a row the list page shows opens in the
\* drawer, on the detail page and in the JSON API, with at least the list's fields;
\* and the JSON API, which takes no sort, lists what the page lists under the same
\* controls.  ctx.count gives one answer by either path, unless a filter names the
\* soft-delete column: the direct path then counts deleted rows too.
SurfacesAgree ==
  pc = "idle" =>
    LET list == [NoRequest EXCEPT !.surface = "listPage", !.deleted = TRUE]
        opened(s, r) == [NoRequest EXCEPT !.surface = s, !.id = r]
        seen(r) == Answer(QueryOf(r, readable), db)
    IN  Allowed(list) =>
          /\ \A r \in seen(list).rows, s \in {"drawer", "detail", "jsonGet"} :
               /\ Allowed(opened(s, r))
               /\ r \in seen(opened(s, r)).rows
               /\ DOMAIN seen(list).shown[r] \subseteq DOMAIN seen(opened(s, r)).shown[r]
          /\ \A r \in {r \in Requests : r.surface = "jsonList" /\ r.sort = NoField} :
               /\ Allowed(r)
               /\ seen(r) = seen([r EXCEPT !.surface = "listPage"])
          /\ \A r \in {r \in Requests : r.surface = "count"} :
               (\A f \in r.filters : f.field # Gone) =>
                 seen(r).rows = Found(RelatedQuery(r, readable), db)
=============================================================================
