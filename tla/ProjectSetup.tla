------------------------------ MODULE ProjectSetup ------------------------------
(***************************************************************************)
(* The life of a project under the CLI: `init` scaffolds it, `doctor`      *)
(* checks and `--fix` repairs it, `new` and `eject` edit its config, and   *)
(* its users edit, move and delete files in between.  Every command works  *)
(* out for itself where things are: the mounts from the config on disk,    *)
(* the auth module from the files, its own page from its content.          *)
(*                                                                         *)
(* URLs and module paths are sequences of segments.  A file is <<kind,     *)
(* path>>; files outside the app directory leave their kind to name them.  *)
(* The files of a command are written as FilesystemPlan has it: all,       *)
(* none, or when the process is killed, those up to some point.            *)
(***************************************************************************)
EXTENDS Integers, Sequences, FiniteSets, SequencesExt

CONSTANTS
  Hosts,        \* projects to start from: alias, rootLayout, provider, auth, pages
  InitOptions,  \* command lines of init: path, auth, devAuth
  DoctorPaths,  \* of --path of doctor, or Missing
  Pages,        \* the users' own pages: route, grouped (in a route group) or not
  Mounts,       \* admin mounts in use
  Apis,         \* mounts of the route handlers in use
  Resources,    \* names of resources
  Dashboards,   \* names of dashboards, each under its own path
  Missing,      \* no such file, option or value
  Dynamic,      \* a mount in the config that is not a literal
  Arrivals,     \* what the package manager may leave: versions of "kit" and "cli"
  MaxKills,     \* bound on killed commands
  MaxChanges    \* bound on what users do to the project

DefaultAdmin == <<"admin">>
FallbackAdmin == <<"flowpanel">>
DefaultApi == <<"api", "flowpanel">>
Pieces == Resources \cup Dashboards

ASSUME MountsAssumption ==
  /\ \A mount \in Mounts \cup Apis : mount \in Seq(ToSet(mount))
  /\ {DefaultAdmin, FallbackAdmin} \subseteq Mounts /\ DefaultApi \in Apis

\* What a file holds, config aside: what the templates write, or the project's own.
OfTemplates == {"generated", "closed", "dev", "preset", "inner", "root"}
OfOthers == {"getSession", "instance", "both", "ejected", "edited"}

\* Import specifiers, by the project's alias or not, of the modules init knows.
Segments == {"src", "server", "lib", "auth", "flowpanel-session"}
Specifiers == [alias : BOOLEAN, path : Seq(Segments)]

ASSUME ProjectAssumption ==
  /\ Missing \notin Mounts \cup Apis \cup Specifiers \cup OfTemplates \cup OfOthers
  /\ Dynamic \notin Mounts \cup Apis \cup {Missing}
  /\ \A h \in Hosts : h.auth.exports \notin OfTemplates
  /\ \A o \in InitOptions :
       /\ DOMAIN o = {"path", "auth", "devAuth"}
       /\ o.path \in Mounts \cup {Missing} /\ o.devAuth \in BOOLEAN
  /\ DoctorPaths \subseteq Mounts \cup {Missing}

VARIABLES
  host,      \* what init finds and no command changes
  files,     \* the content of each file there is
  packages,  \* installed "kit" and "cli": "absent", "same" minor or "other"
  settled,   \* history: the last init that wrote, while nobody took it back
  praise,    \* what the last command claimed: "complete", "healthy" or nothing
  kills, changes

setup == <<host, files, packages, settled, praise, kills, changes>>

\* Where the project's own auth module may be, in the order init looks.
AuthPlaces == <<
  <<"src", "server", "lib", "auth">>, <<"src", "lib", "auth">>,
  <<"server", "lib", "auth">>, <<"lib", "auth">>, <<"src", "auth">> >>

Config == <<"config", <<>>>>
Css == <<"css", <<>>>>
Migration == <<"migration", <<>>>>
Page(mount) == <<"page", mount>>
Layout(mount) == <<"layout", mount>>
Api(api) == <<"api", api>>
Sse(api) == <<"sse", api>>
Module(where) == <<"module", where>>
Ejected(part, name) == <<part, <<name>>>>

\* The pages of a resource, then the module all of them import; a dashboard is a page.
PartsOf(name) ==
  IF name \in Dashboards THEN <<Ejected("list", name)>>
  ELSE <<Ejected("list", name), Ejected("views", name), Ejected("actions", name)>>

Exists(f) == f \in DOMAIN files
ContentOf(f) == IF Exists(f) THEN files[f] ELSE Missing

SetupFrom(h) ==
  /\ host = [alias |-> h.alias, rootLayout |-> h.rootLayout, provider |-> h.provider,
             pages |-> h.pages]
  /\ files = [f \in {m \in {Module(h.auth.where)} : h.auth.exports # Missing} |-> h.auth.exports]
  /\ packages = [kit |-> "absent", cli |-> "absent"]
  /\ settled = Missing /\ praise = "none" /\ kills = 0 /\ changes = 0

SetupInit == \E h \in Hosts : SetupFrom(h)

-----------------------------------------------------------------------------
(* Modules and import specifiers *)

\* With "@/*" on src/, the alias of a file outside src/ names one inside.
AliasOf(where) ==
  [alias |-> host.alias # "none",
   path |-> IF host.alias = "strip-src" /\ Head(where) = "src" THEN Tail(where) ELSE where]

Resolve(specifier) ==
  IF specifier.alias /\ host.alias = "strip-src" THEN <<"src">> \o specifier.path
  ELSE specifier.path

UnderSource(where) == IF host.alias = "strip-src" THEN <<"src">> \o where ELSE where

\* What a module exports: the project's own, or one that init wrote.
Exports(content) ==
  CASE content \in {"getSession", "closed", "dev", "preset"} -> {"getSession"}
    [] content = "instance" -> {"instance"}
    [] content = "both" -> {"getSession", "instance"}
    [] OTHER -> {}

ExportsOf(specifier) ==
  IF specifier # Missing /\ (specifier.alias => host.alias # "none")
  THEN Exports(ContentOf(Module(Resolve(specifier)))) ELSE {}

DetectedAuth ==
  LET found == {i \in DOMAIN AuthPlaces : Exists(Module(AuthPlaces[i]))} IN
  IF found = {} THEN Missing
  ELSE AliasOf(AuthPlaces[CHOOSE i \in found : \A j \in found : i <= j])

GuessedAuth == AliasOf(<<"server", "lib", "auth">>)
StubFile == UnderSource(<<"server", "lib", "auth">>)
SessionFile == UnderSource(<<"server", "lib", "flowpanel-session">>)

\* Faulty: a module's own getSession does not matter.
PresetsRegardless(o) ==
  /\ o.auth = Missing /\ ~o.devAuth /\ host.provider # Missing
  /\ host.provider = "clerk" \/ "instance" \in ExportsOf(DetectedAuth)

\* planAuthSession: a provider's instance is bridged by a module on its preset.
Presets(o) ==
  /\ o.auth = Missing /\ ~o.devAuth /\ host.provider # Missing
  /\ "getSession" \notin ExportsOf(DetectedAuth)
  /\ host.provider = "clerk" \/ "instance" \in ExportsOf(DetectedAuth)

AuthOf(o) ==
  IF o.auth # Missing THEN o.auth
  ELSE IF Presets(o) THEN AliasOf(SessionFile)
  ELSE IF DetectedAuth # Missing THEN DetectedAuth ELSE GuessedAuth

\* Faulty: takes the guess for a file to write although the project has it.
StubsAlways(o) == ~Presets(o) /\ AuthOf(o) = GuessedAuth

\* Nothing exports getSession yet: init writes a module that denies everybody.
Stubs(o) == ~Presets(o) /\ DetectedAuth = Missing /\ AuthOf(o) = GuessedAuth

AuthResolves(o) == Presets(o) \/ Stubs(o) \/ "getSession" \in ExportsOf(AuthOf(o))

-----------------------------------------------------------------------------
(* Mounts and routes *)

\* readAdminMount: a dynamic admin is an error, and says nothing of the API.
Configured ==
  IF ~Exists(Config) THEN [admin |-> DefaultAdmin, api |-> DefaultApi]
  ELSE IF files[Config].admin = Dynamic THEN [admin |-> Dynamic, api |-> Missing]
  ELSE [admin |-> files[Config].admin, api |-> files[Config].api]

Static(mount) == mount \notin {Missing, Dynamic}
Overlap(mount, api) == IsPrefix(mount, api) \/ IsPrefix(api, mount)

\* <<file, URL>> of the page and route files in the app directory.
Routes ==
  {<<<<"own", page>>, page.route>> : page \in host.pages}
    \cup {<<Page(m), m \o <<"[[...slug]]">>>> : m \in {m \in Mounts : Exists(Page(m))}}
    \cup {<<Api(a), a \o <<"[...route]">>>> : a \in {a \in Apis : Exists(Api(a))}}
    \cup {<<Sse(a), a \o <<"stream">>>> : a \in {a \in Apis : Exists(Sse(a))}}
    \cup {<<Ejected("list", name), <<"admin", name>>>> :
            name \in {x \in Pieces : Exists(Ejected("list", x))}}

\* findAdminRouteConflicts: routes of the branch under the mount.
RoutesUnder(mount, ignored) == {r \in Routes : IsPrefix(mount, r[2]) /\ r[1] \notin ignored}

\* Faulty: init takes its own page for somebody else's.
ConflictsWithAll(mount) == RoutesUnder(mount, {})

\* init knows its own page by its content.
Conflicts(mount) ==
  RoutesUnder(mount, IF ContentOf(Page(mount)) = "generated" THEN {Page(mount)} ELSE {})

ApiOf == IF Configured.api = Missing THEN DefaultApi ELSE Configured.api
Wanted(o) == IF o.path # Missing THEN o.path ELSE Configured.admin

\* An occupied /admin is left to its owner, unless it was asked for.
MountOf(o) ==
  IF Conflicts(Wanted(o)) # {} /\ o.path = Missing /\ Wanted(o) = DefaultAdmin /\ ~Exists(Config)
  THEN FallbackAdmin ELSE Wanted(o)

KitFits == packages.kit # "other"

\* The checks that init passes before it has a plan.
InitAdmits(o) ==
  /\ KitFits /\ AuthResolves(o)
  /\ Static(Wanted(o)) /\ Static(ApiOf)
  /\ ~Overlap(Wanted(o), ApiOf)
  /\ Conflicts(MountOf(o)) = {}

-----------------------------------------------------------------------------
(* Files that commands write: sequences of <<file, content>> *)

InitPlan(o) ==
  LET mount == MountOf(o) IN
  << <<Config, [admin |-> mount, api |-> ApiOf, auth |-> AuthOf(o), live |-> {}, ejected |-> {}]>>,
     <<Page(mount), "generated">>, <<Api(ApiOf), "generated">>, <<Sse(ApiOf), "generated">>,
     <<Css, "generated">>, <<Migration, "generated">> >>
  \o (IF Presets(o) THEN << <<Module(SessionFile), "preset">> >>
      ELSE IF Stubs(o)
      THEN << <<Module(StubFile), IF o.devAuth THEN "dev" ELSE "closed">> >>
      ELSE <<>>)
  \o << <<Layout(mount), IF host.rootLayout THEN "inner" ELSE "root">> >>

\* An entry that is new or different; those that differ are conflicts, unless forced.
Differs(e) == ContentOf(e[1]) # e[2]
Blocked(writes) == \E e \in ToSet(writes) : Exists(e[1]) /\ Differs(e)

WriteEntries(entries) ==
  files' = [f \in DOMAIN files \cup {e[1] : e \in entries} |->
    IF \E e \in entries : e[1] = f THEN (CHOOSE e \in entries : e[1] = f)[2] ELSE files[f]]

WriteAll(writes) == WriteEntries(ToSet(writes)) /\ UNCHANGED kills

\* Killed after some of the files.
WriteSome(writes) ==
  /\ kills < MaxKills /\ kills' = kills + 1
  /\ \E n \in 1..Len(writes) :
       /\ \E i \in 1..n : Differs(writes[i])
       /\ WriteEntries({writes[i] : i \in 1..n})

Claims(what) == praise' = what
NothingWritten == UNCHANGED <<files, packages, settled, kills>>

-----------------------------------------------------------------------------
(* init *)

InitApplies(o) == InitAdmits(o) /\ ~Blocked(InitPlan(o))

InitStops(o) ==
  /\ ~InitApplies(o)
  /\ Claims("none")
  /\ NothingWritten /\ UNCHANGED <<host, changes>>

\* The package manager may leave a missing package out, or bring any version; it
\* is asked for missing ones only.
Installs ==
  \E brought \in Arrivals :
    packages' = [p \in DOMAIN packages |->
      IF packages[p] = "absent" THEN brought[p] ELSE packages[p]]

DependencyReport ==
  IF \A p \in DOMAIN packages : packages'[p] = "same" THEN "complete" ELSE "none"

InitWrites(o) ==
  /\ InitApplies(o)
  /\ settled' = o
  /\ \/ /\ WriteAll(InitPlan(o)) /\ Installs
        /\ Claims(DependencyReport)
     \/ WriteSome(InitPlan(o)) /\ Claims("none") /\ UNCHANGED packages
  /\ UNCHANGED <<host, changes>>

-----------------------------------------------------------------------------
(* doctor, with the mount of --path or of the config *)

MountAt(path) == IF path # Missing THEN path ELSE Configured.admin

\* It never asks what its own page contains.
ForeignRoutes(mount) == RoutesUnder(mount, {Page(mount)})

Fixable(path) ==
  (IF Static(Configured.api) THEN <<Api(Configured.api), Sse(Configured.api)>> ELSE <<>>)
  \o <<Migration>>
  \o (IF Static(MountAt(path)) /\ ForeignRoutes(MountAt(path)) = {}
      THEN <<Page(MountAt(path))>> ELSE <<>>)

Incomplete(path) == \E f \in ToSet(Fixable(path)) : ~Exists(f)

\* What is there stays as it is.
Repairs(path) ==
  [i \in DOMAIN Fixable(path) |->
    LET f == Fixable(path)[i] IN <<f, IF Exists(f) THEN files[f] ELSE "generated">>]

\* staleEjectMarkers looks under admin/ for pages without the marker.
Unmarked == \E page \in host.pages :
  ~page.grouped /\ Len(page.route) = 2 /\ Head(page.route) = "admin"

\* Failing checks without a fix.
Ailing(path) ==
  \/ ~Exists(Config) \/ ~KitFits \/ Unmarked
  \/ ~Static(MountAt(path)) \/ ~Static(Configured.api)
  \/ ForeignRoutes(MountAt(path)) # {}

FixRefused(path) ==
  \/ ~KitFits \/ ~Static(MountAt(path)) \/ ~Exists(Config)
  \/ Static(Configured.api) /\ Overlap(MountAt(path), Configured.api)

\* Praise of the mount it was told to look at is none of the project.
Diagnoses(path) ==
  Claims(IF Ailing(path) \/ MountAt(path) # Configured.admin THEN "none" ELSE "healthy")

DoctorLooks(path) ==
  /\ IF Incomplete(path) THEN Claims("none") ELSE Diagnoses(path)
  /\ NothingWritten /\ UNCHANGED <<host, changes>>

\* --fix; given another mount than the config's, it builds a second admin.
DoctorFixes(path) ==
  /\ ~FixRefused(path) /\ Incomplete(path)
  /\ \/ WriteAll(Repairs(path)) /\ Diagnoses(path)
     \/ WriteSome(Repairs(path)) /\ Claims("none")
  /\ settled' = IF path \in {Missing, Configured.admin} THEN settled ELSE Missing
  /\ UNCHANGED <<host, packages, changes>>

-----------------------------------------------------------------------------
(* new and eject *)

Declares(name) == Exists(Config) /\ name \in files[Config].live
WithConfig(live, ejected) ==
  << <<Config, [files[Config] EXCEPT !.live = live, !.ejected = ejected]>> >>

New(name) ==
  /\ Exists(Config) /\ name \in Resources /\ ~Declares(name)
  /\ WriteAll(WithConfig(files[Config].live \cup {name}, files[Config].ejected))
  /\ Claims("none") /\ settled' = Missing
  /\ UNCHANGED <<host, packages, changes>>

\* Faulty: comments the entry out before its pages are there.
EjectPlanConfigFirst(name) ==
  WithConfig(files[Config].live \ {name}, files[Config].ejected \cup {name})
  \o [i \in DOMAIN PartsOf(name) |-> <<PartsOf(name)[i], "ejected">>]

\* The pages, then the config with the entry commented out.
EjectPlan(name) ==
  [i \in DOMAIN PartsOf(name) |-> <<PartsOf(name)[i], "ejected">>]
  \o WithConfig(files[Config].live \ {name}, files[Config].ejected \cup {name})

\* A page left by an earlier eject of the same version is kept, another one
\* replaced only if forced; an entry that is not there cannot be commented out.
Eject(name, force) ==
  /\ KitFits /\ Declares(name)
  /\ force \/ \A f \in ToSet(PartsOf(name)) : ContentOf(f) \in {Missing, "ejected"}
  /\ \/ WriteAll(EjectPlan(name)) /\ Claims("none")
     \/ WriteSome(EjectPlan(name)) /\ Claims("none")
  /\ settled' = Missing
  /\ UNCHANGED <<host, packages, changes>>

\* Always to admin/, where init's own layout is in the way unless forced.
EjectLayout(force) ==
  /\ KitFits /\ Exists(Config)
  /\ force \/ ContentOf(Layout(DefaultAdmin)) \in {Missing, "ejected"}
  /\ WriteAll(<< <<Layout(DefaultAdmin), "ejected">> >>)
  /\ Claims("none") /\ settled' = Missing
  /\ UNCHANGED <<host, packages, changes>>

-----------------------------------------------------------------------------
(* Users *)

Change == changes < MaxChanges /\ changes' = changes + 1 /\ Claims("none") /\ UNCHANGED kills

\* Without its config a project has no mount to keep; in place of a stub gone the
\* same init takes a preset that needs no instance; and a module that --auth names
\* is not for init to write.
TakesInitBack(f) ==
  /\ settled # Missing
  /\ \/ f = Config
     \/ /\ f = Module(StubFile) /\ host.provider = "clerk"
        /\ settled.auth = Missing /\ ~settled.devAuth
     \/ settled.auth \notin {Missing, GuessedAuth} /\ f = Module(Resolve(settled.auth))

Delete(f) ==
  /\ Change
  /\ f # Config => files[f] \in OfTemplates
  /\ files' = [other \in DOMAIN files \ {f} |-> files[other]]
  /\ settled' = IF TakesInitBack(f) THEN Missing ELSE settled
  /\ UNCHANGED <<host, packages>>

\* The stub is there to be replaced by the project's own getSession.
ConnectSession(where) ==
  /\ Change
  /\ ContentOf(Module(where)) \in {"closed", "dev"}
  /\ files' = [files EXCEPT ![Module(where)] = "getSession"]
  /\ UNCHANGED <<host, packages, settled>>

EditFile(f) ==
  /\ Change
  /\ f # Config /\ files[f] \in OfTemplates \cup {"ejected"}
  /\ files' = [files EXCEPT ![f] = "edited"]
  /\ settled' = Missing
  /\ UNCHANGED <<host, packages>>

Remount(admin, api) ==
  /\ Change
  /\ Exists(Config)
  /\ files' = [files EXCEPT ![Config].admin = admin, ![Config].api = api]
  /\ settled' = Missing
  /\ UNCHANGED <<host, packages>>

\* Entries of the config, and eject taken back.
Declare(name) ==
  /\ Change
  /\ Exists(Config) /\ ~Declares(name)
  /\ files' = [f \in DOMAIN files \ ToSet(PartsOf(name)) |->
       IF f = Config THEN [files[f] EXCEPT !.live = @ \cup {name}, !.ejected = @ \ {name}]
       ELSE files[f]]
  /\ settled' = Missing
  /\ UNCHANGED <<host, packages>>

AddPage(page) ==
  /\ Change
  /\ host' = [host EXCEPT !.pages = @ \cup {page}]
  /\ settled' = Missing
  /\ UNCHANGED <<files, packages>>

Reinstall(version) ==
  /\ Change
  /\ packages' = [packages EXCEPT !.kit = version]
  /\ UNCHANGED <<host, files, settled>>

UserChanges ==
  \/ \E f \in DOMAIN files : Delete(f) \/ EditFile(f)
  \/ \E where \in ToSet(AuthPlaces) : ConnectSession(where)
  \/ \E admin \in Mounts \cup {Dynamic}, api \in Apis \cup {Dynamic} : Remount(admin, api)
  \/ \E name \in Pieces : Declare(name)
  \/ \E page \in Pages : AddPage(page)
  \/ \E version \in {"same", "other"} : Reinstall(version)

SetupNext ==
  \/ \E o \in InitOptions : InitStops(o) \/ InitWrites(o)
  \/ \E path \in DoctorPaths : DoctorLooks(path) \/ DoctorFixes(path)
  \/ \E name \in Pieces : New(name) \/ \E force \in BOOLEAN : Eject(name, force)
  \/ \E force \in BOOLEAN : EjectLayout(force)
  \/ UserChanges

SetupSpec == SetupInit /\ [][SetupNext]_setup

-----------------------------------------------------------------------------
(* Properties *)

\* The same command line again; --dev-auth may be left out once its module is there.
Again(o) ==
  {o} \cup (IF o.devAuth /\ Exists(Module(StubFile))
            THEN {[o EXCEPT !.devAuth = FALSE]} ELSE {})

\* "Re-running init is idempotent": what an init wrote, finished or killed, what
\* doctor repaired and the user deleted or connected since, never stops the same
\* init; it finds its mount, its page and its session module again.
RerunCompletes ==
  settled # Missing /\ KitFits =>
    \A o \in Again(settled) : InitApplies(o)

\* After an init that reports success, and after a doctor without complaints,
\* everything the config refers to is where the config refers to it.
PraiseIsTrue ==
  LET config == files[Config] IN
  /\ praise # "none" =>
       /\ Exists(Config)
       /\ \A f \in {Page(config.admin), Api(config.api), Sse(config.api), Migration} : Exists(f)
       /\ ForeignRoutes(config.admin) = {}
  /\ praise = "complete" =>
       Exists(Layout(config.admin)) /\ Exists(Css) /\ "getSession" \in ExportsOf(config.auth)

\* A resource or dashboard that the config hands over has all its files, a kill
\* between two of them included.
EjectedHasPages ==
  Exists(Config) => \A name \in files[Config].ejected : \A f \in ToSet(PartsOf(name)) : Exists(f)

ProjectStaysWhole == RerunCompletes /\ PraiseIsTrue /\ EjectedHasPages

\* The pages of an ejected resource reach its rows: "Data still goes through
\* FlowPanel's protected request controller", which knows the config's resources.
EjectedReachTheirRows ==
  \A name \in Resources :
    ContentOf(Ejected("list", name)) = "ejected" /\ ContentOf(Ejected("actions", name)) = "ejected"
      => Declares(name)
=============================================================================
