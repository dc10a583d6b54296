------------------------------- MODULE RouteGraph -------------------------------
(***************************************************************************)
(* The addresses of an admin.  compileAdmin accepts a configuration whose  *)
(* names and paths do not collide; after that, two sides that never meet   *)
(* in a test write addresses and read them: the navigation, the tables,    *)
(* the forms and the client library build them, and the page router and    *)
(* the API's catch-all find out what was meant.  Record ids are whatever   *)
(* the database holds.                                                     *)
(*                                                                         *)
(* A segment of an address is its decoded text: the parts between its      *)
(* slashes, if it has any.                                                 *)
(***************************************************************************)
EXTENDS Integers, Sequences, SequencesExt

CONSTANTS
  Sites,        \* configurations: names of resources and queues, paths of the rest
  Ids,          \* record ids: not empty, and not dots, which a browser resolves
  SafeAtoms,    \* parts that SAFE_SEGMENT matches
  Lowercase     \* [name or part -> its lower case], where that differs

Text(parts) == [parts |-> parts, slash |-> "/"]
Atom(name) == Text(<<name>>)

\* How a declared path is written: as it will be normalized, with a trailing
\* slash, with a blank in front of it.
Spellings == {"plain", "trailing", "spaced"}

ASSUME SitesAssumption ==
  \A s \in Sites :
    /\ DOMAIN s = {"resources", "dashboards", "pages", "queues"}
    /\ \A kind \in DOMAIN s : s[kind] \in Seq(ToSet(s[kind]))
    /\ \A d \in ToSet(s.dashboards) \cup ToSet(s.pages) :
         /\ d.path \in Seq(ToSet(d.path))
         /\ d.spelling \in Spellings /\ (d.path = <<>> => d.spelling = "plain")
    /\ \A p \in ToSet(s.pages) : p.component \in BOOLEAN
ASSUME IdsAssumption == \A i \in Ids : i.slash = "/" /\ i.parts # <<>>
\* Parts begin with a letter.
ASSUME AtomsAssumption == SafeAtoms \cap {"", " ", "_root_"} = {}

VARIABLES
  site,      \* the configuration
  stage,     \* "written", "refused", "serving", "asked", "answered"
  wanted,    \* what the address was built for
  address,   \* method and decoded segments
  opened     \* what answers

routes == <<site, stage, wanted, address, opened>>

Thing(kind, args) == [kind |-> kind, args |-> args]
Nothing404 == Thing("notFound", <<>>)
NoAddress == [method |-> "none", segments |-> <<>>]

-----------------------------------------------------------------------------
(* compileAdmin *)

RESERVED_ROUTE_SEGMENTS == {"dashboards", "drawer", "queues"}

Resources == ToSet(site.resources)
Queues == ToSet(site.queues)
DashboardPaths == {d.path : d \in ToSet(site.dashboards)}
Components == {p \in ToSet(site.pages) : p.component}

key(name) == IF name \in DOMAIN Lowercase THEN Lowercase[name] ELSE name
PathKey(path) == [i \in DOMAIN path |-> key(path[i])]

\* RouteNameRegistry: the names and the paths that the declarations claim.
ClaimedNames == site.resources \o site.queues
ClaimedPaths ==
  LET declared(s) == [i \in DOMAIN s |-> s[i].path]
  IN  [i \in DOMAIN site.resources |-> <<site.resources[i]>>]
      \o declared(site.dashboards) \o declared(site.pages)
      \o [i \in DOMAIN site.queues |-> <<"queues", site.queues[i]>>]

NameKeys == [i \in DOMAIN ClaimedNames |-> key(ClaimedNames[i])]
PathKeys == [i \in DOMAIN ClaimedPaths |-> PathKey(ClaimedPaths[i])]
SafePaths == UNION {ToSet(p) : p \in ToSet(ClaimedPaths)} \subseteq SafeAtoms

\* Faulty: names are compared within their kind only, and nothing is reserved.
AcceptedByPath == SafePaths /\ IsInjective(PathKeys)

AcceptedSite ==
  /\ ToSet(ClaimedNames) \cap RESERVED_ROUTE_SEGMENTS = {}
  /\ SafePaths
  /\ IsInjective(NameKeys) /\ IsInjective(PathKeys)

Compile ==
  /\ stage = "written"
  /\ stage' = IF AcceptedSite THEN "serving" ELSE "refused"
  /\ UNCHANGED <<site, wanted, address, opened>>

-----------------------------------------------------------------------------
(* What the UI and the client library link to, and the addresses they build *)

OfResource == {"resource", "create", "jsonList", "jsonCreate", "createForm", "import"}
OfRecord == {"detail", "edit", "drawer", "jsonGet", "jsonUpdate", "jsonDelete",
             "inlineUpdate", "editForm", "restore"}

Things ==
  {Thing(k, [resource |-> Atom(r)]) : k \in OfResource, r \in Resources} \cup
  {Thing(k, [resource |-> Atom(r), id |-> i]) : k \in OfRecord, r \in Resources, i \in Ids} \cup
  {Thing(k, [resource |-> Atom(r), id |-> i, action |-> Atom("archive")]) :
     k \in {"drawerAction", "rowAction"}, r \in Resources, i \in Ids} \cup
  {Thing("bulkAction", [resource |-> Atom(r), action |-> Atom("archive")]) : r \in Resources} \cup
  {Thing("references", [resource |-> Atom(r), field |-> Atom("owner")]) : r \in Resources} \cup
  {Thing("dashboard", [path |-> d.path]) : d \in ToSet(site.dashboards)} \cup
  {Thing("dashboardAction", [path |-> d.path, action |-> Atom("archive")]) :
     d \in ToSet(site.dashboards)} \cup
  {Thing("page", [path |-> p.path]) : p \in Components} \cup
  {Thing("queue", [queue |-> Atom(q)]) : q \in Queues}

Declaration(thing) ==
  CHOOSE d \in ToSet(site.dashboards) \cup Components :
    d.path = thing.args.path /\ (thing.kind = "page" <=> d \in Components)

\* buildPath splits the path as it is spelled.
buildPath(d) ==
  (IF d.spelling = "spaced" THEN <<Atom(" ")>> ELSE <<>>) \o [i \in DOMAIN d.path |-> Atom(d.path[i])]

\* encodeDashboardPath makes one segment of the path as it is spelled.
encodeDashboardPath(d) ==
  IF d.path = <<>> THEN Atom("_root_")
  ELSE LET parts == (IF d.spelling = "spaced" THEN <<" ">> ELSE <<>>) \o d.path
                    \o (IF d.spelling = "trailing" THEN <<"">> ELSE <<>>)
       IN  [parts |-> parts, slash |-> IF Len(parts) = 1 THEN "/" ELSE "_2f"]

decodeDashboardPath(segment) == IF segment = Atom("_root_") THEN <<>> ELSE segment.parts

Address(thing) ==
  LET a == thing.args
      at(method, segments) == [method |-> method, segments |-> segments]
      page(segments) == at("page", segments)
      post(segments) == at("POST", segments)
  IN CASE thing.kind \in {"dashboard", "page"} -> page(buildPath(Declaration(thing)))
       [] thing.kind = "resource" -> page(<<a.resource>>)
       [] thing.kind = "queue" -> page(<<Atom("queues"), a.queue>>)
       [] thing.kind = "detail" -> page(<<a.resource, a.id>>)
       [] thing.kind = "create" -> page(<<a.resource, Atom("new")>>)
       [] thing.kind = "edit" -> page(<<a.resource, a.id, Atom("edit")>>)
       [] thing.kind = "drawer" -> at("GET", <<Atom("drawer"), a.resource, a.id>>)
       [] thing.kind = "references" -> at("GET", <<a.resource, Atom("reference"), a.field>>)
       [] thing.kind = "jsonList" -> at("GET", <<a.resource>>)
       [] thing.kind = "jsonGet" -> at("GET", <<a.resource, a.id>>)
       [] thing.kind = "jsonUpdate" -> at("PATCH", <<a.resource, a.id>>)
       [] thing.kind = "jsonDelete" -> at("DELETE", <<a.resource, a.id>>)
       [] thing.kind = "jsonCreate" -> post(<<a.resource>>)
       [] thing.kind = "createForm" -> post(<<a.resource, Atom("create")>>)
       [] thing.kind = "import" -> post(<<a.resource, Atom("import")>>)
       [] thing.kind = "bulkAction" -> post(<<a.resource, Atom("bulk-actions"), a.action>>)
       [] thing.kind = "inlineUpdate" -> post(<<a.resource, a.id, Atom("update")>>)
       [] thing.kind = "editForm" -> post(<<a.resource, a.id, Atom("edit")>>)
       [] thing.kind = "restore" -> post(<<a.resource, a.id, Atom("restore")>>)
       [] thing.kind = "rowAction" -> post(<<a.resource, a.id, Atom("actions"), a.action>>)
       [] thing.kind = "drawerAction" ->
            post(<<Atom("drawer"), a.resource, a.id, Atom("actions"), a.action>>)
       [] thing.kind = "dashboardAction" ->
            post(<<Atom("dashboards"), encodeDashboardPath(Declaration(thing)),
                   Atom("actions"), a.action>>)

Follow(thing) ==
  /\ stage = "serving"
  /\ wanted' = thing /\ address' = Address(thing) /\ stage' = "asked"
  /\ UNCHANGED <<site, opened>>

-----------------------------------------------------------------------------
(* What answers *)

\* A pattern holds literal segments and the names of captured ones.
Captures == {":resource", ":id", ":field", ":action", ":dashboard", ":queue"}
Route(to, segments) == [to |-> to, segments |-> segments]

GetRoutes == <<
  Route("drawer", <<"drawer", ":resource", ":id">>),
  Route("references", <<":resource", "reference", ":field">>),
  Route("jsonList", <<":resource">>),
  Route("jsonGet", <<":resource", ":id">>)>>

\* Faulty: the row routes come before those of the drawer and the dashboards.
RowsFirst == <<
  Route("rowAction", <<":resource", ":id", "actions", ":action">>),
  Route("drawerAction", <<"drawer", ":resource", ":id", "actions", ":action">>),
  Route("dashboardAction", <<"dashboards", ":dashboard", "actions", ":action">>),
  Route("bulkAction", <<":resource", "bulk-actions", ":action">>),
  Route("import", <<":resource", "import">>),
  Route("createForm", <<":resource", "create">>),
  Route("inlineUpdate", <<":resource", ":id", "update">>),
  Route("editForm", <<":resource", ":id", "edit">>),
  Route("restore", <<":resource", ":id", "restore">>),
  Route("jsonCreate", <<":resource">>)>>

PostRoutes == <<
  Route("drawerAction", <<"drawer", ":resource", ":id", "actions", ":action">>),
  Route("dashboardAction", <<"dashboards", ":dashboard", "actions", ":action">>),
  Route("rowAction", <<":resource", ":id", "actions", ":action">>),
  Route("bulkAction", <<":resource", "bulk-actions", ":action">>),
  Route("import", <<":resource", "import">>),
  Route("createForm", <<":resource", "create">>),
  Route("inlineUpdate", <<":resource", ":id", "update">>),
  Route("editForm", <<":resource", ":id", "edit">>),
  Route("restore", <<":resource", ":id", "restore">>),
  Route("jsonCreate", <<":resource">>)>>

PageRoutes == <<
  Route("queue", <<"queues", ":queue">>),
  Route("resource", <<":resource">>),
  Route("create", <<":resource", "new">>),
  Route("detail", <<":resource", ":id">>),
  Route("edit", <<":resource", ":id", "edit">>)>>

RoutesOf(method) ==
  CASE method = "GET" -> GetRoutes
    [] method = "POST" -> PostRoutes
    [] method = "PATCH" -> <<Route("jsonUpdate", <<":resource", ":id">>)>>
    [] method = "DELETE" -> <<Route("jsonDelete", <<":resource", ":id">>)>>
    [] method = "page" -> PageRoutes

matchRoute(route, segments) ==
  /\ Len(route.segments) = Len(segments)
  /\ \A i \in DOMAIN segments :
       route.segments[i] \in Captures \/ segments[i] = Atom(route.segments[i])

Captured(route, segments, name) ==
  segments[CHOOSE i \in DOMAIN segments : route.segments[i] = name]

\* The thing a route's handler looks up with what was captured.
Handled(route, segments) ==
  LET has(name) == name \in ToSet(route.segments)
      it(name) == Captured(route, segments, name)
      args == CASE has(":queue") -> [queue |-> it(":queue")]
                [] has(":dashboard") ->
                     [path |-> decodeDashboardPath(it(":dashboard")), action |-> it(":action")]
                [] has(":id") /\ has(":action") ->
                     [resource |-> it(":resource"), id |-> it(":id"), action |-> it(":action")]
                [] has(":id") /\ ~has(":action") -> [resource |-> it(":resource"), id |-> it(":id")]
                [] has(":action") /\ ~has(":id") /\ ~has(":dashboard") ->
                     [resource |-> it(":resource"), action |-> it(":action")]
                [] has(":field") -> [resource |-> it(":resource"), field |-> it(":field")]
                [] OTHER -> [resource |-> it(":resource")]
  IN  Thing(route.to, args)

dispatch(table, segments) ==
  LET fits == {i \in DOMAIN table : matchRoute(table[i], segments)}
  IN  IF fits = {} THEN Nothing404
      ELSE Handled(table[CHOOSE i \in fits : \A j \in fits : i <= j], segments)

\* slug.join("/")
Joined(slug) == FlattenSeq([i \in DOMAIN slug |-> slug[i].parts])

\* renderContent: a dashboard, a page, then the routes.  The root without either
\* is the first dashboard, or the first resource.
renderContent(slug) ==
  LET path == Joined(slug)
      root == slug = <<>> /\ <<>> \notin DashboardPaths IN
  IF root /\ site.dashboards # <<>> THEN Thing("dashboard", [path |-> site.dashboards[1].path])
  ELSE IF path \in DashboardPaths THEN Thing("dashboard", [path |-> path])
  ELSE IF path \in {p.path : p \in Components} THEN Thing("page", [path |-> path])
  ELSE IF slug = <<>> /\ site.resources # <<>>
  THEN Thing("resource", [resource |-> Atom(site.resources[1])])
  ELSE dispatch(PageRoutes, slug)

\* The event stream has a route file of its own beside the catch-all.
apiRoute(a) ==
  IF a.method = "GET" /\ a.segments = <<Atom("stream")>> THEN Thing("events", <<>>)
  ELSE dispatch(RoutesOf(a.method), a.segments)

Serve ==
  /\ stage = "asked"
  /\ opened' = IF address.method = "page" THEN renderContent(address.segments) ELSE apiRoute(address)
  /\ stage' = "answered"
  /\ UNCHANGED <<site, wanted, address>>

RoutesInit ==
  /\ site \in Sites
  /\ stage = "written"
  /\ wanted = Nothing404 /\ address = NoAddress /\ opened = Nothing404

RoutesNext ==
  \/ Compile \/ Serve
  \/ \E thing \in Things : Follow(thing)

-----------------------------------------------------------------------------
(* Properties *)

\* The addresses known to lead elsewhere: the page "/" of an admin with
\* dashboards; a record whose address a dashboard or page declares as its own, or
\* whose id is a word of the route; the list of a resource called like the event
\* stream; a dashboard whose path is not spelled as it is normalized.
Shadowed ==
  LET k == wanted.kind
      record == wanted.args.id
      path == Joined(address.segments)
      spelling == Declaration(wanted).spelling
  IN  \/ k = "page" /\ wanted.args.path = <<>> /\ site.dashboards # <<>>
      \/ k \in {"detail", "create", "edit"}
           /\ path \in DashboardPaths \cup {p.path : p \in Components}
      \/ k = "detail" /\ record = Atom("new")
      \/ k \in {"inlineUpdate", "editForm", "restore"} /\ record = Atom("bulk-actions")
      \/ k = "jsonList" /\ wanted.args.resource = Atom("stream")
      \/ k \in {"dashboard", "page"} /\ spelling = "spaced"
      \/ k = "dashboardAction" /\ spelling # "plain"

\* In a configuration that was accepted, every address the admin builds is
\* answered by what it was built for, whatever the ids in the database, unless it
\* is one of those; and no other's address leads there instead.
EveryAddressArrives == stage = "answered" => (opened = wanted <=> ~Shadowed)
=============================================================================
