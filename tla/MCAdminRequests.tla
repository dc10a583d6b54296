----------------------------- MODULE MCAdminRequests ---------------------------
(* An instance of AdminRequests for TLC. *)
EXTENDS AdminRequests

CONSTANTS id, secret, gone, r1, r2, r3

MCRows == {r1, r2, r3}
MCMine == {r1, r2}
MCFields == {id, secret, gone}
MCDynamic == {secret}
MCValues == {0, 1}

\* r2 is deleted; r3 is another tenant's.
MCDatabases == {[r \in MCRows |-> [f \in MCFields |->
                   CASE f = gone -> IF r = r2 THEN 1 ELSE 0
                     [] f = id -> IF r = r1 THEN 0 ELSE 1
                     [] OTHER -> IF r = r2 THEN 0 ELSE 1]]}

\* secret is declared in the lists given, gone is a column.
Plain(lists) ==
  [declared |-> [l \in Lists |-> (IF l \in lists THEN {secret} ELSE {}) \cup
                                 (IF l = "columns" THEN {id, gone} ELSE {})],
   defaultSort |-> IF "columns" \in lists THEN secret ELSE NoField,
   softDelete |-> TRUE, scope |-> "predicate",
   role |-> TRUE, access |-> [o \in {"read", "update"} |-> TRUE],
   hidden |-> "tab" \in lists, counts |-> TRUE]

MCConfigs ==
  LET all == Plain(Lists)
  IN  {Plain({l}) : l \in Lists}
        \cup {[all EXCEPT !.hidden = FALSE], [all EXCEPT !.scope = "bypass"],
              [all EXCEPT !.scope = "missing"], [all EXCEPT !.role = FALSE],
              [all EXCEPT !.access["read"] = FALSE], [all EXCEPT !.softDelete = FALSE],
              [all EXCEPT !.scope = "bypass", !.counts = FALSE],
              [all EXCEPT !.declared["columns"] = {id, secret}]}

MCFilters == {[field |-> f, admits |-> {1}] : f \in {secret, gone}}

\* One list control at a time; every by-id surface on every row.
MCRequests ==
  LET bare(s) == [surface |-> s, id |-> NoRow, filters |-> {}, sort |-> NoField,
                  text |-> NoText, extra |-> {}, deleted |-> FALSE]
      ways(s) == {bare(s)} \cup {[bare(s) EXCEPT !.filters = {f}] : f \in MCFilters}
                   \cup {[bare(s) EXCEPT !.sort = secret]}
                   \cup {[bare(s) EXCEPT !.text = 1]}
  IN  ways("listPage") \cup ways("jsonList")
        \cup {[bare("listPage") EXCEPT !.deleted = TRUE]}
        \cup {[bare(s) EXCEPT !.id = r] : s \in {"jsonGet", "drawer", "detail", "edit"}, r \in MCRows}
        \cup {[w EXCEPT !.extra = {secret}] : w \in ways("related")}
        \cup {[bare("references") EXCEPT !.extra = {id, secret},
                 !.filters = {[field |-> id, admits |-> MCValues]}]}
        \cup {[bare("count") EXCEPT !.filters = {f}] : f \in MCFilters}

(* Routes *)

MCIds == {Atom("a"), Text(<<"a", "b">>), Atom("new"), Atom("edit"), Atom("bulk-actions"),
          Atom("import"), Atom("reference"), Atom("actions")}
MCSafeAtoms == {"users", "Users", "stream", "drawer", "queues", "emails", "reports",
                "new", "edit", "a", "b"}
MCLowercase == [n \in {"Users"} |-> "users"]

At(path) == [path |-> path, spelling |-> "plain"]
MCPaths == {At(<<>>), At(<<"users">>), At(<<"users", "a">>), At(<<"users", "a", "b">>),
            At(<<"users", "new">>), At(<<"users", "a", "edit">>), At(<<"queues", "emails">>),
            At(<<"7up">>)}
MCSpelled == {[path |-> <<"reports">>, spelling |-> s] : s \in Spellings}
MCTwo == {<<At(<<"reports">>), At(<<>>)>>, <<At(<<>>), At(<<"users", "reports">>)>>}

MCSites ==
  LET one(S) == {<<>>} \cup {<<x>> : x \in S}
      page(d, c) == [path |-> d.path, spelling |-> d.spelling, component |-> c]
  IN  [resources : {<<>>, <<"users">>, <<"users", "stream">>, <<"users", "Users">>,
                    <<"drawer", "users">>, <<"emails", "users">>},
       dashboards : one(MCPaths \cup MCSpelled) \cup MCTwo,
       pages : one({page(d, TRUE) : d \in MCPaths \cup MCSpelled})
               \cup {<<page(At(p), FALSE)>> : p \in {<<"users">>, <<"users", "a">>}},
       queues : one({"emails", "users"})]
=============================================================================
