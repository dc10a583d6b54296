# Models and proofs for FlowPanel

FlowPanel generates admin panels on Next.js from a typed configuration. Much of
the repository is stateless: configuration compiled once at start-up, markup
rendered from one request's data. This directory models the parts that are not:
where processes, requests, callbacks, timers or files have to agree, where calls
fail half-way, and where two pieces of code that never meet must mean the same
(who writes an address and who reads it, who renders a control and who decodes
what it posts, who cuts SQL and who runs it). The specifications are TLA+, checked
by TLC on small instances; for eight of the components TLAPS proves the safety
that matters most for every value of the constants.

Paths below are relative to the repository; `packages/` is where the code is.

- [Inventory](#inventory): the system's parts, their state and their hazards
- [Modules](#modules): which module models which part, and how
- [Runs](#runs): what is checked, the bounds, the fairness
- [Proofs](#proofs)
- [Disagreements found](#disagreements-found)
- [What is not modelled](#what-is-not-modelled)
- [Plan](#plan): done and to do

To check a run: `tlc -config X.cfg M.tla`, with the configuration and the module
that `PROJECT.json` names. To check proofs: `tlapm XProofs.tla`. `PROJECT.json` lists
the components, runs, mutants, theorems, hazards and, for every definition, the source
lines it stands for.

## Inventory

### Migrations

`flowpanel migrate` (`cli/src/commands/migrate.ts`) lists the applied ids once,
then walks the files of `flowpanel/migrations` in order and calls
`applyMigration(id, sql)` of the adapter for each id missing from that list. An
adapter without that hook gets the legacy pair `runMigrationSql`,
`markMigrationApplied`. State: the table `_flowpanel_migrations`, the schema
itself, each process's snapshot. The executors differ:

| Database | Prisma (`adapter-prisma`) | Drizzle (`adapter-drizzle`) |
| --- | --- | --- |
| PostgreSQL | transaction + advisory lock | transaction + advisory lock |
| SQLite | transaction, write lock | transaction, write lock |
| MySQL | a durable row of `_flowpanel_migration_claims` | `GET_LOCK` on a pinned connection |

Hard: MySQL commits DDL implicitly, so a file can be half applied for good; the
process can die between any two statements; an answer can be lost after its
effect; a lock can be given back before what it protected is visible. And the
executors send a file statement by statement, as cut by a lexer of FlowPanel's own
(`core/src/internal/migration-sql.ts`), while the database has its own idea of
quotes and comments. Correct means: no statement takes effect twice behind
anybody's back, a marker stands for the whole file, files are applied in order, a
waiter does not wait for ever, and what is sent is what the file says.

### Scaffolding

`cli/src/plan`: `init`, `new`, `eject` and `doctor --fix` plan all files, then
write them one by one and roll back on a failure. State: the files, the plan's
snapshot. Hard: failures in the middle and in the roll-back, kills, edits between
plan and write, two runs at once. Correct means: what a run reports is true of
the files, and nobody's work is replaced unasked.

Over its life a project meets these commands many times (`cli/src/commands`,
`cli/src/utils`, `cli/src/doctor`, `cli/src/eject`). State: the generated files, the
config on disk, the installed packages. Every command finds out anew where things
are: the mounts from the text of the config, the auth module from the files, init's own page from its content.
Hard: an init killed between two files and run again; what doctor, eject and the
user did to the same files; a second run that takes the first one's work for a
conflict. Correct means: init can be run again over its own result, "complete" and
"healthy" are true when they are said, and a URL the config hands over has its page.

### Realtime, server side

`bindPublisher` (`next/src/runtime/publish.ts`) keeps one publisher per process
and replaces it when the options change. A publisher (`core/src/runtime/publish.ts`,
`redis-publisher.ts`) keeps a Set of handlers per channel and, for Redis,
subscriber connections. `stream.ts` turns a GET into an SSE stream: it binds,
awaits the session and the permissions, subscribes, and unsubscribes when its
client is gone. Hard: the client can leave at any await; another request may
rebind between a stream's bind and its subscribe; with a connection string every
first subscription that finds no connection awaits one of its own. Correct means:
handlers and heartbeats are exactly those of the open streams, an event reaches
who was subscribed, nothing leaks.

### Realtime, browser side

`RealtimeProvider` (`react/src/realtime`) shares one `EventSource` between all
subscribers below it: reference counts, callbacks, a reopen debounce, a reconnect
backoff, a refresh debounce, a visibility flag. Without a provider,
`useLiveChannel` and `useRealtimeRefresh` share connections through a module-level
pool. Hard: error events of replaced sources, timers that survive what they were
set for, hidden tabs, React's order of clean-ups. Correct means: the connection
carries what is wanted or a timer will see to it, the status shown is true,
events are followed by a refresh.

### Admission and reading

`buildRequestContext` (`next/src/runtime/request-setup.ts`) resolves session,
role, tenant scope and rate limit once per `Request`, whichever of a page's reads
asks first; a rejected resolution drops its memo. The limiter
(`core/src/runtime/rate-limit.ts`) counts in fixed windows in memory, or with INCR
and PEXPIRE in Redis. The page router (`next/src/flowpanel-page.tsx`) and the
catch-all of the API (`next/src/handlers.ts`) find out what an address means;
`compileAdmin` checks beforehand that names and paths do not collide. Nine surfaces
then read rows: list page, JSON list, JSON record, drawer, detail page, edit page,
related tab, reference search and labels, `ctx.count`, each with guards, a
projection and list controls of its own (`next/src/runtime/require-authorized.ts`
and its callers), over the adapters' reads. Hard: a count taken twice or not at
all when a resolution fails; a key whose PEXPIRE was lost; ids, names and paths
that read like another route; a field the caller may not read showing in the
order of rows, in what a filter leaves, or in a count; policies that change
between two awaits. Correct means: one admission per request, a bounded window, a
refusal that ends, every address answered by what it was built for, and an answer
that depends on readable fields of the caller's own rows only.

### Mutations of a resource

Create, update, delete, inline edit, bulk delete, restore, import and the
application's row, drawer, bulk and dashboard actions (`next/src/actions`,
`next/src/runtime`), over the adapters' writes (`adapter-drizzle/src/adapter.ts`,
`adapter-prisma/src/adapter.ts`). Every one reads, judges, writes, and after the
commit audits and publishes. Hard: nothing guards a row between read and write;
a driver may take no asynchronous transaction;
any database call, the audit sink and the publisher may fail, with or without
effect; dialects differ in what a write answers. Correct means: what the caller
is told and what the audit trail says is what happened to the rows.

### The page in the browser

Pieces with state of their own, all of them live while route refreshes replace
what they stand on:

- the record drawer (`next/src/drawer/DrawerHost.tsx`): the record of the URL, its
  fetches, their answers and aborts, the actions of its footer;
- an editable cell (`react/src/_data/InlineEditCell.tsx`): draft, blur, save,
  refresh;
- the list's URL (`react/src/hooks/useAdminTable.ts`,
  `next/src/pages/resource-list-search.tsx`): next URLs built from the committed one, a search box with a debounce;
- the table (`react/src/_data`): ticked rows, a keyboard cursor that is a position,
  a bulk bar;
- a remote picker (`react/src/_forms/AsyncSelect.tsx`): loads that overtake each
  other;
- the edit form (`react/src/_forms`, `next/src/actions/resource-form.ts`,
  `next/src/runtime/coerce-values.ts`, `core/src/policy/fields.ts`): stored values become text, the browser
  posts its controls, the server decodes, coerces, checks policies and writes;
- ranges of days: the list's filter (`react/src/_data/filters/DateRangeFilter.tsx`,
  `react/src/_data/Calendar.tsx`, `next/src/runtime/parse-list-params.ts`), a
  calendar of two months worked by mouse and keyboard, whose days the server reads
  in UTC; a dashboard's presets (`next/src/runtime/date-range.ts`) and the days of
  its charts (`core/src/runtime/series.ts`);
- the buttons that run actions (`next/src/actions/RowActionsMenu.tsx`,
  `DashboardActionsBar.tsx`, `BulkActionsBar.tsx`, the drawer's `ActionButton`,
  `RestoreButton.tsx`) with their confirm and form dialogs and the runner they share
  (`use-action-runner.ts`).

Correct means: what is shown is of the record, query or text it stands for; what
was not typed is not written; Enter goes to the row the operator was on; a saved
form wrote what was seen and entered; a list has the rows of the days picked; an action
runs once per press and its end is told where it was started.

### How they interact

    flowpanel migrate --applyMigration--> migration executors --> database
    request --> admission --> route --> surface --> adapter --> database
    request --> bindPublisher --> publisher <--subscribe/dispose-- SSE stream
    mutation --> adapter --> database; then audit sink; then publisher.publish
    publisher --event--> SSE stream --message--> RealtimeProvider / pool
             --> router.refresh() --> every piece of the page
    CLI command --> filesystem plan --> files <-- editors, other runs

Components talk by awaited calls (the executors, adapters, sinks), by callbacks
(handlers, `EventSource` events, timers) and through shared state (tables, files,
the publisher store, module-level maps). JavaScript runs a callback to its next
`await`; that is the grain of every action below.

### Parts without state

Introspection, filter parsing, the other validations of the compiler, rendering
and charts, the typed client's wrapper of `fetch`, the BullMQ board, the text the
CLI generates, and the development packages. They are listed in `PROJECT.json` with
the reason each is left out.

## Modules

| Module | Part | Notes |
| --- | --- | --- |
| `MigrationLedger` | what `applyMigration` promises | abstract specification |
| `MigrationClaim` | Prisma on MySQL | implements `MigrationLedger` |
| `MigrationLock` | the other executors | both kinds of lock |
| `MigrateCommand` | `flowpanel migrate` | over either kind of adapter |
| `MigrationSql` | cutting a file into statements | two lexers in lockstep |
| `FilesystemPlan` | scaffolding transaction | |
| `ProjectSetup` | `init`, `doctor`, `new`, `eject` over a project's life | |
| `CliCommands` | the four above | composition |
| `RedisPublisher` | publishers of `core` | operators on a family of publishers |
| `RealtimeServer` | publisher store, streams | composes with `RedisPublisher` |
| `RealtimeBus` | `RealtimeProvider` | |
| `RequestAdmission` | request context, rate limiter | |
| `RouteGraph` | compiler, addresses, routes | |
| `ReadSurfaces` | nine ways to read a resource | |
| `AdminRequests` | the three above | composition |
| `ResourceMutations` | mutations, actions, adapters' writes | |
| `ServerProcess` | `RealtimeServer`, `ResourceMutations` | composition |
| `LiveChannelPool` | the pool without a provider | |
| `DrawerSession`, `InlineEdit`, `ListUrl`, `TableSession`, `AsyncSelect`, `EditForm`, `DateRanges`, `ActionMenu` | pieces of the page | |
| `AdminPage` | the pool and the pieces | composition |
| `MigrationClaimProofs`, `MigrationLockProofs`, `RealtimeBusProofs`, `LiveChannelPoolProofs`, `AdminRequestsProofs`, `ServerProcessProofs`, `AdminPageProofs`, `CliCommandsProofs` | | theorems |
| `MC...` | | sets of model values, symmetries |

Some definitions are introduced by a comment that begins "Faulty:". They are
plausible bugs in the definition that follows and no action uses them; each shows
that a property of the run notices the bug (`PROJECT.json`, "mutants").

### MigrationClaim

One migration id, any number of calls of `applyWithClaim`. `pc[c]` is the awaited
database call a call is at, `idx[c]` its local `index`, `claimOwner`,
`claimState` and `claimIndex` the claim row, `marked` the row of
`_flowpanel_migrations`, `ran[s]` how often statement `s` took effect and `left[s]`
how often it had when an operator last took the claim away. One action
per database call: `Start` and `Recheck` (the two `isApplied`), `Cleanup`,
`Insert` and `Lookup` (`tryClaim` and its catch block), the `Poll...` actions,
`Deadline` and `Sleep` (the loop of `acquireClaim`), `Progress`, `Execute`,
`MarkApplied`, `RecordFailure`, `Release`. A call may be rejected before or after
its effect. `Kill` ends a process between two calls. An operator
who finds the owner gone does what the message says. That of a failed claim asks to
repair the schema and delete the row (`OperatorRepairs`); that of the deadline, the
only one shown behind a killed owner, asks to delete the row "if that migrator is
gone" and for no repair (`OperatorDeletes`): what the owner had committed stays, and
the next run sends the file again.

`MigrationLedger` says what all this is for: one run at a time begins at the first
statement, sends each once and in order, then the marker; after a run that left
half-way no other begins before an operator acted, who repaired the schema
(`Repair`) or let the file start over on what was there (`StartOver`). The
refinement maps `effects` to `ran`, `live` to a call in the body, and `applied` to
the length of the prefix of the file that the runs since `left` have sent. Most steps
stutter; the interesting ones are a killed owner whose claim outlives it and a
cleanup that deletes somebody's claim.

### MigrationLock

The same for executors that lock: `lock`, and per call the open transaction
(`inTx`, `txRan`, `txMarked`), private until `CommitBody`. On MySQL, `Perform`
models the implicit commit: a DDL statement publishes what came before it and the
rest of the file runs in autocommit. `Unlock` is `RELEASE_LOCK`, which comes
before `CommitBody` because it is in the `finally` block of the callback that
drizzle's `transaction` is still running; where the lock belongs to the
transaction, `CommitBody` and `RollbackBody` give it back. The marker's primary
key is modelled too (`MarkerFree`, and the second disjunct of `Mark`): it is what
undoes the second of two runs when the lock came free too early.

### MigrateCommand, MigrationSql, FilesystemPlan, ProjectSetup; CliCommands

`MigrateCommand` has processes with a snapshot (`listed`), a place in the list
(`place`) and what they report (`appliedNow`), over one of three adapters. Where file
and marker are one transaction (both kits on PostgreSQL and SQLite) an application is
one atomic operation that rechecks the id (`AdapterApplies`), which `MigrationLock`
justifies. On MySQL the SQL (`RunSql`) and the marker (`MarkSql`) are two steps, as
they are with the legacy hooks: DDL is durable before the marker, so that a rejected
or killed call leaves a file in the schema, in part or whole, without one. What
MySQL's adapters have and the hooks have not is the lock or the claim, which keeps
two processes from the same file between its recheck and its marker (`MayRun`). A
claim that refuses the file, a lock not to be had in time, and the second run of a
file of rows, which its marker's key rolls back, are rejections without effect.

`MigrationSql` reads a text one character at a time with two lexers, the code's
and the database's (external), looking two characters ahead. A lexer is a set of
rules (mode, what is seen, how much is taken, next mode); the longest that fits is
applied. The text is invented as it is read, so a run covers files of any length;
`Written` names the constructs, known to be read differently, that the text may
contain.

In `FilesystemPlan`, `Start` and `Classify` are `createFilesystemPlan` (each file
is read at its own instant), `Write`, `Finish`, `Rollback` and `Rethrow` are
`applyFilesystemPlan`; `Kill` and `SomebodyEdits` the environment. `known[p]` is
history: the files nobody else changed since `p` planned them. The intents of the
commands the CLI has are a constant of the run.

`ProjectSetup` is one level up: which files a command writes, in which order, with
which content, over a project that earlier commands and users have changed. URLs and
module paths are sequences of segments, a file is a kind and a path, a plan a
sequence of files and contents. `Configured` is what `readAdminMount` reads from
the config, `AuthOf`, `Presets` and `Stubs` how init finds or makes a session module,
`MountOf` and `Conflicts` where it may mount, `InitPlan`, `Repairs` and `EjectPlan`
the plans. A command writes all of its plan (`WriteAll`) or, killed, the files up to some point
(`WriteSome`); what goes wrong inside an application of a plan is `FilesystemPlan`'s
matter. Users delete, edit and move files, remount the admin, declare an ejected
resource again, add pages and reinstall (`UserChanges`). `settled` and `praise`
are history: the last init that nobody took back, and what the last command claimed.

### RealtimeServer and RedisPublisher

`RedisPublisher` has the state of all publishers a process has had and the
operators `Subscribe`, `Dispose`, `Replace` (create and close), `WireUp` (which
connection a first subscription uses), and the actions `Connected` and
`ConnectFails` of a pending `connect()`. `RealtimeServer` EXTENDS it with the
store (`current`, `Bind`), the life of a stream (`Open`, `Refuse`, `Start`,
`Disconnect`, `End`) and one event followed from Redis or memory to the streams
(`PublishOnRedis`, `PublishInMemory`, `Dispatch`). `due` is history: the streams
that event has to reach. `ServerProcess` puts it beside `ResourceMutations`: a
mutation hands over its event and looks at nothing of the publisher.

### RealtimeBus and LiveChannelPool

`RealtimeBus` has one action per callback: `Subscribe` and `Unsubscribe`, the
timers `ReopenFires`, `ReconnectFires` and `RefreshFires`, the source's `OnOpen`,
`Mutation` (its `onmessage`, or a message nobody gets), `OnErrorRetrying` and
`OnErrorClosed`, `Hide`, `Show`, `Unmount`. `OpenSource` is `openSource`.
`received`, `dropped` and `missed` are history: what has arrived or passed without
a refresh. An error event of a replaced source is a step (`OnErrorClosed(FALSE)`)
that must do nothing.

In `LiveChannelPool` hooks `held` a key; an entry has `refs`, `source`, `timer`,
`attempt`, `status`. `Acquire` joins or creates, `Release` drops with the last
hook; the rest are the source's and the timer's callbacks.

### RequestAdmission, RouteGraph, ReadSurfaces; AdminRequests

`RequestAdmission`: a `Request` object is a slot with its memo; each of its reads
calls, waits for the memo or starts the resolution; the resolution's steps
(identity, scope, INCR, PEXPIRE) may be rejected before or after their effect.
Time passes in ticks and a window lasts `Window` of them. `charged`, `spoilt`,
`lost` and `recent` are history; `recent[k][i]` is how many requests a key was
admitted within the last `i` ticks.

`RouteGraph`: `Compile` picks a site and stays only with one `compileAdmin`
accepts; `Follow` builds the address of one thing (a page, an action, a route of
the API) as the code that links to it does; `Serve` finds who answers, in the
order the router and the catch-all try. Segments are decoded texts, taken apart
where they hold slashes.

`ReadSurfaces`: one request of one surface over one configuration. The handler's
steps are separate where it awaits: `Authorize` (the guards), `Sift` (the JSON
API's own pass over the controls), `Resolve` (projection and controls become a
query), `Read`, `Project`, `ReadTab`. `ChangePolicy` and `Write` come between them.
`query` is what the adapter is asked, `answer` what leaves the server: rows, the
cells shown, and the order.

### ResourceMutations

Each request has a kind and target rows and goes through read, write, read-back,
commit, audit and effects. `Throws`, `ThrowsAfterInsert`, `ReadsBack` and
`Matches` are the differences between the adapters. Drizzle over SQLite is two of
them: drivers that answer with a promise, and better-sqlite3, which answers at once
and refuses an asynchronous callback for a transaction (`Refuses`); then the request
ends (`RefuseBatch`) and the callback goes on deleting (`DeleteOrphaned`). `staged` is
an open bulk transaction; `trail` the audit entries; `told` what was published; `did` the
history of what a request's committed writes changed.

### The pieces of the page; AdminPage

- `DrawerSession`: `Open` and `Close` change the URL, abort the fetch before and
  send the next; `Serve`, `Receive` and `Fail` are its ends, with the version of
  the record that was read; `Post` sends the footer's action for the URL's record,
  and `Succeed` refetches. Effects that follow a change of state are part of the
  step, here and below.
- `InlineEdit`: open, type, Enter, blur, Escape, the save's answer, and `Refresh`
  with any value.
- `ListUrl`: the committed URL, the pending navigation (a newer one discards it),
  the search box's text, its timer and `lastApplied`.
- `TableSession`: rows as the server answered, `ticked`, the cursor, the bulk bar
  and its answer; a refresh brings any rows.
- `AsyncSelect`: text, timer, the loads under way (also cancelled ones, which only
  get ignored), the options shown.
- `EditForm`: `RenderForm` (what is a default, as which text), `Enter` and
  `SubmitForm` (the browser: what an input makes of the text it is given, what it
  posts), `SaveForm` (`renderedFieldShapes`, `readFormValues`,
  `coerceRowByColumns`, `effectiveFieldPolicies`, `inferSchema`, write), and
  `WriteUnderForm` by somebody else. A value is a kind and a content: what matters
  is which spelling becomes which kind.
- `DateRanges`: the popover (`calendarOpen`, `picked`, `month`, `focused`), the day
  the keyboard is on, and the range of the URL; a day is its number in a calendar
  of months of given lengths, an instant a number of ticks, and a time zone so many
  ticks ahead. `wide` is whether the window shows the second month, which the code
  counts in either case (`DaysCountedFrom`, `DaysShownFrom`, `ResizeCalendar`); `inGrid`
  whether the keyboard's focus is on a day that is seen. `Listed` is the adapter's filter over the bounds of the server;
  `DashboardRange` and `Buckets` are `resolveDateRange` and `fillDays`. Quarters and
  years are a longer month; a dashboard's `?from=&to=` is read as it is.
- `ActionMenu`: `pending` (one action for the buttons that share it, a set for those
  with a state of their own), the dialog with the run it waits for, and the runs
  `sent`, each with the outcome the server will give it. `Click`, `Confirm`, `Submit`,
  `Dismiss` and `RemountMenu` are the operator's; `Answer` is the rest of `execute`
  with its `finally`, `runAction` and the dialog's `onSubmit`.

`CliCommands`, `AdminRequests`, `ServerProcess` and `AdminPage` put pieces side by
side that share no variable. In each, one `piece` moves in a behavior and the others rest in one
value; since no piece reads what another writes, interleaving them would only
multiply the states. What the pieces of a page do share is the route refresh: any
may cause one, so each admits one at any time.

## Runs

| Run | Instance | States | Properties |
| --- | --- | --- | --- |
| `migration_claim` | 3 calls, 2 statements, 1 poll, 2 faults | 128,351 | `OneBody` `SchemaIsTold` `FailedClaimHolds` `ImplementsLedger` `EveryCallEnds` |
| `migration_lock` | 3 calls, 3 statements with DDL in the middle, 3 faults, both databases | 23,531 | `MarkIsTheFile` `NoReplayWithoutFault` `LockComesFree` |
| `cli_commands` | 2 scaffolding runs, 3 files, 2 faults, 1 foreign edit; 5 projects, 2 pieces to eject, 1 kill, 1 change by users; 3 migrate processes, 3 migrations, 2 rejections, 3 kinds of adapter; SQL of 3 dialects, comments 2 deep | 1,337,068 | `OutcomeIsTrue` `ReplacesWhatItPlanned` `ProjectStaysWhole` `InFileOrder` `StatementsAreTheServers` |
| `server_process` | 2 streams, 2 channels, 2 publishers, 2 connections, 1 fault; 2 requests, 2 rows, every kind of adapter, 2 faults | 2,344,092 | `HandlersAreStreams` `ListenedIsCarried` `EventsReachTheirStreams` `BulkIsAllOrNothing` `AnswersAreTrue` `PhantomsAreRaces` |
| `realtime_bus` | 2 subscribers, 2 channels, 2 mutations | 81,252 | `NeverStranded` `StatusIsTrue` `ReceivedIsRefreshed` `SubscriberIsHeard` `ChannelsReachServer` |
| `admin_requests` | 2 requests with 2 reads each, limit 2, window 2; sites of up to 2 resources, 2 dashboards, a page, a queue; 3 rows, 2 changes | 654,370 | `OneAdmissionPerRequest` `WindowIsBounded` `RefusalsEnd` `EveryAddressArrives` `UnreadableHasNoSay` `RowsAreTheCallers` `SurfacesAgree` |
| `admin_page` | 3 hooks, 2 keys; 2 records, 2 actions; 3 cell values; 3 searches, 2 filters, 2 pages; 4 rows, pages of 3; 3 queries, 3 loads; forms of 2 fields; a calendar of 4 months, 2 time zones, wide and narrow windows; 2 actions, 2 runs | 894,519 | `HooksShowTheConnection` `SettledShowsTheRecord` `UntypedWritesNothing` `BoxTellsTheSearch` `CursorKeepsItsRow` `ListAnswersTheQuery` `SavingIsTrue` `RangesAreTold` `ActionsAreTold` |

Five more runs (`migration_lock_rows`, `migration_sql_literal`, `ejected_rows`,
`realtime_bus_reconnect`, `sync_batch`) look for one violation each; see
[Disagreements found](#disagreements-found). Every property is stated with a
comment at the end of its module; where the code does otherwise in a corner we
know of, the property excepts that corner by name, so that it says that nothing
else does.

### What the passing runs show

- `migration_claim`: with crashes, lost answers and give-ups at any database call,
  one owner at a time, no statement twice before an operator acted, a claim that
  tells how far the runs since then have come, and no caller left waiting.
- `migration_lock`: the locks of the other executors give all of a file or nothing
  where the database can, and never a marker before the whole file; a call that
  ends gives the lock back.
- `cli_commands`: what a scaffolding run reports is so, planned contents are what
  is replaced (except for edits between plan and write); init may be run again over
  what it, a kill and a user's change have left, a command's praise is true, and an
  ejected resource that the config no longer serves has its pages; migrations run
  and are marked in file order whichever processes run, each once where file and
  marker are one transaction, and on MySQL with every further run owed to a rejection
  or a kill; and for files without the constructs listed
  below a statement sent is a statement the server sees.
- `server_process`: whenever clients leave and publishers are rebound, handlers
  are those of open streams, channels listened to are carried by some connection,
  and an event reaches the streams it is due to. Batches are atomic where the
  driver runs them in a transaction, errors and audit entries are true up to named races, no committed
  change goes unannounced but for named ones.
- `realtime_bus`: no subscriber is left without connection or timer, the header
  tells the truth, what was received will be refreshed.
- `admin_requests`: a request is counted once however its reads and failures
  interleave; two windows' worth of admissions is the most a window's length lets
  through; every refusal ends (keys whose PEXPIRE was lost excepted); every
  address leads where it was meant to (`Shadowed` ones excepted); no answer
  depends on a field the caller could not read at any moment, or on rows out of
  scope; the surfaces agree on which rows there are.
- `admin_page`: the pieces' races end well (see the list under Inventory); the
  list has exactly the rows of the days picked, in either order and over the ends
  of months; the keyboard always has a day to come to, but for three cases excepted
  by name; and every row of a dashboard's range has its bucket in any time zone. An
  action's button waits for it, its end or its field errors come to where it was
  started, and no other form closes, but for what buttons that share `pending` and
  form do to each other.

### Why the bounds are enough

- *Migrations.* Two calls suffice to contend; the third may come while the first
  cleans up and the second waits. Two statements put a fault between statements,
  three put DDL between rows that come before and after it. Two faults make a
  failure whose own handling fails (`CLAIM_FAILED`, the roll-back); a third in
  `migration_lock` kills a waiter besides. One poll is a wait; more polls repeat
  it. The theorems hold for all numbers.
- *SQL.* The text is unbounded: the state is what two lexers are in and the next
  two characters. `MaxDepth` 2 tells a comment in a comment from one.
- *Files.* Three files make a first, a middle and a last; two runs overlap.
- *Projects.* Five hosts: no alias, one to the root and one to `src`; no auth
  provider, one with a preset and one with an instance; auth modules that export a
  session, an instance or nothing usable; a page of the user's own under the default
  mount or not. A kill and a change of the user's come at any moment of any sequence
  of commands; two changes were explored to depth 8 without a violation.
- *Realtime server.* Two streams and channels share and do not share; two
  publishers are one replacement while streams hold the first; two connections
  make the last one `sub` while the other carries a channel. With one more of
  any of them TLC does not end in minutes.
- *Realtime bus.* Two subscribers share a channel and leave it in either order.
  `OfflineAfter` is 2 instead of 3: attempts are counted up to it only.
- *Admission.* Two reads wait for one resolution; two requests share a key; a
  limit of 2 distinguishes the last admitted from the first refused, and a window
  of 2 ticks has an inside. `MaxTries` bounds resolutions of one request: a
  rejected one, and one more.
- *Days.* Months of two and three days, so that a date may be missing from the
  month beside; four of them, so that the two that are shown have a month on either
  side; weeks of two days and days of two instants, the first and the last; one time
  zone ahead of UTC and one behind; links with one side only, and reversed. One tick
  passes, so that the browser's day and the server's change at different times.
- *Actions.* Two actions and two runs: what the end of one does to the button, the
  dialog and the answer of the other. With three runs TLC finds no error in the
  two million states of the piece alone, and the theorem holds for any number.
- *Routes.* Configurations hold the names and paths that could meet each other or
  a word of a route; ids are such a word, hold a slash, or are neither. Names that
  are told apart by nothing in the code are left out.
- *Surfaces.* One row of the caller's, one of his deleted, one of another tenant;
  a key, the soft-delete column and a field whose policy may change its mind;
  requests for each surface with and without each control that it reads.
- *Mutations.* Conflicts are between two requests; two rows make a batch that
  fails in the middle and two batches that deadlock. Two faults: a failing write
  and a failing sink.
- *Page.* Three hooks: one joins while another leaves and a third keeps the entry.
  Two records make late answers of another one. Pages of three have an inner row
  between the ends `SameRows` looks at, four rows another page. Three loads: two
  overtaken by a third. Forms: each kind of column under each control that fits it,
  nullable and not; a text and a box under each guard (read, write, role, hidden,
  read-only); generated forms; a box beside it, because what a box does not post
  may be another's. Fields do not depend on each other otherwise.

The type invariants are not among the runs' properties; they hold in these
instances, and where there are proofs they are part of the inductive invariants.

### Fairness

Safety runs assume none. Four liveness properties do:

- `EveryCallEnds` (`MigrationClaim`): weak fairness of each call's steps. Node
  resumes a call whose promise settled, and a database call settles. No fairness
  for the operator, who may never come, nor against kills.
- `LockComesFree` (`MigrationLock`): the same. A connection that died has given
  its lock back (the server does).
- `ChannelsReachServer` (`RealtimeBus`): the three timers fire. The debounced ones
  restart with each change, so this assumes a pause of the debounce time between
  bursts; nothing is assumed of the server, the network or the user. That a
  stream of events closer than 400 ms postpones `router.refresh()` for as long as
  it lasts is a hazard the property does not cover (see `PROJECT.json`).
- `RefusalsEnd` (`RequestAdmission`): time passes (`Tick`), and a resolution that
  was begun goes on (`Advance(r)`, one condition per request). Nobody has to ask
  again.

`CHECK_DEADLOCK FALSE` stands in the runs whose actors come to an end: all calls
ended, all requests answered, everything unmounted, a file read to its end.

## Proofs

Eight proof modules, no assumptions besides those on the constants named in the
component (`CallsAssumption`: "nobody" is no call; `StatementsAssumption`: a file
has a statement; `AbsentAssumption`: a missing file has no contents;
`RequestsAssumption`: only the list page shows deleted rows, and a count takes no
search; and the like, all of them evaluated by TLC in the runs too).
`RealtimeBusProofs` states one more where it needs it (below).

**`MigrationClaimProofs`.** For any number of calls, statements, polls and
faults: `TypeOK`, `OneBody`, `SchemaIsTold` and its consequence `NeverReplayed`,
`ResolvedMeansMarked`, `FailedClaimHolds`, and the refinement `ImplementsLedger`.
What they say of the schema they say relative to `left`: `NeverReplayed` is that a
statement takes effect once at most until an operator deletes the row of an owner
that was killed half-way, and then once more at most, per deletion.
None of these is inductive. `NeverReplayed` holds
at `Execute` because beyond `left` the schema then holds exactly the statements before
`idx[c]`, which is known because `c` owns the claim and nobody else has written
since, which is known because two owners cannot be in the body. So `IInv` says, at
each place of the code, who owns the claim (`OwnerInv`), what the schema holds for
an owner at that place (`HeldAt` in `SchemaInv`), that a call that has not reached
its recheck has run nothing (`IdxInv`), and that a failed claim's owner has ended
(`FailedInv`). `Init => IInv`, one step per action, and the
properties follow. The refinement theorem maps every step to a step of the ledger
or a stutter (`QuietStep` for those that leave the schema alone and begin no run), with `RanPrefix` to show that the `CHOOSE` of `AppliedCount` is
unique.

**`MigrationLockProofs`.** For any number of calls, statements and faults and any
DDL among the statements: `TypeOK`, `AllOrNothing` and `MarkerLast` (together
`MarkIsTheFile`), `ResolvedMeansMarked`, `NoReplayWithoutFault`. Three arguments side by side in
`LockInv`. A marker stands for the whole file (`ProgressInv`) without any use of
the lock. A transactional database holds all of a file or nothing because the
lock lasts as long as the transaction: whoever is past the recheck holds it, and
whoever does not hold it has nothing staged (`TransactionInv`). On MySQL the lock
ends before COMMIT, so the argument splits (`MySQLInv`): a file with DDL has its
transaction committed by the DDL, hence its marker written under the lock; one
without may be run by a second call, but its marker has the same key, and the
second transaction can only be rolled back.

**`RealtimeBusProofs`.** For any subscribers and channels: `NeverStranded`,
`StatusIsTrue`, `ReceivedIsRefreshed` (`ConnectionInv`: types, `DropsAreOwed`, and
the three together, since a status that is true is what makes a pending timer
visible), and `SubscriberIsHeard` under the assumption that subscribers pass
functions of their own (`Callback` injective): with a shared one it is false, as
told below. `HearingInv` adds that the reference counts are those of the live
subscriptions.

**`LiveChannelPoolProofs`.** For any finite set of hooks and any keys: `TypeOK`,
`RefsAreHolders`, `OneConnectionPerKey`, `HooksShowTheConnection`. The three need
each other (`PoolInv`): a hook that joins shows what is true only because another
hook already holds the entry and shows it, which needs the count to be the number
of holders. The counting steps rest on `FiniteSetTheorems`.

**`AdminRequestsProofs`.** For any configuration, requests, reads, keys, limits,
database and policy, in the composition: `OneAdmissionPerRequest`,
`UnreadableHasNoSay` and `RowsAreTheCallers`. For the first, `AdmissionInv` adds to
the types that a memo is pending exactly while a resolution runs
(`PendingIsRunning`) and that a request was counted when its memo was fulfilled and
not before, unless a failing PEXPIRE spoilt it (`ChargedOnFulfilment`). The other
two rest on two facts about the operators: an answer is a function of the cells its
query names, and a query names only what was readable at some moment of the request
(`ReadInv`). So two databases that agree on those cells give the same answer.
`SurfacesAgree` compares the answers of different surfaces to the same database, so
it is no matter of steps: `OpenedIsFound` (a row of the page opens on the other
surfaces with its fields), `ListsAskTheSame` (the page's query and the JSON API's
are the same under the same controls) and `CountsAgree` are facts about `QueryOf`
and `Answer`, and only the type of what is readable is carried along (`ReadInv`).
`WindowIsBounded` is not inductive: a stretch of a window's length may reach over
two windows. `LimiterInv` splits it where the current window began: the ticks since
then admitted no more than its counter (up to the limit), and the ticks before them
at most `Limit` more (`Bounded`). In Redis the check that opens a window is counted
before it has set the window's end and is admitted after it, so one admission is
`Owed` meanwhile; that only one check at a time opens a window of a key is part of
the invariant (`OneOpens`).
`EveryAddressArrives` holds for any configurations, ids, safe parts and cases of
letters. `RoutesInv` only says that what is served was accepted and that nothing is
forgotten between the link and the answer; the substance is `EveryKindArrives`, one
lemma per kind of address. For each table of routes it is proved once when an entry
fits (`GetMatches`...), what its handler looks up (`GetHandles`...) and which one is
first (`GetDispatches`...), from the length and the literal segments of the address
alone. What the compiler checks comes in where a kind's lemma needs it: a resource
is not called like a reserved segment (`NamesAreFree`), paths are distinct and no
name is a path (`PathsAreDistinct`), and parts are safe, so that the sentinel
`_root_` of the root dashboard is no path (`PathsAreSafe`, from `AtomsAssumption`:
`SAFE_SEGMENT` wants a letter first). That `slug.join("/")` gives a declared path
back (`JoinedAtoms`) unfolds the library's recursive function by a least
counterexample. The lemmas say both what arrives and that what is `Shadowed` does not.

**`ServerProcessProofs`.** Of the mutations, for any requests, rows and adapters:
`BulkIsAllOrNothing`, `PhantomsAreRaces` and `AnswersAreTrue` with its two parts,
`FailureIsTrue` and `NothingIsSilent`. The first speaks of batches in a transaction,
and a batch that `Refuses` is in none; `AnswersAreTrue` excepts it by name.
`MutationInv` is the types and, for every request, `Local(q)`: how far it is
(`Progress`), what it has seen, what its open batch holds, what its failure,
acknowledgement, trail and announcements say of what it did. A step of `q` is one
lemma per action; that a step of another request leaves `Local(q)` alone is one
lemma for all of them.
Of the streams, for any streams, channels, publishers and connections: `ServerTypeOK`,
`HandlersAreStreams`, `ListenedIsCarried` and `EventsReachTheirStreams`, by `ServerInv`.
What carries them: at most one publisher is open and it is the one bound, so a
stream's callback is in one place only; a connection that carries or is about to
carry anything belongs to a publisher; and a publisher not yet made has nothing. A
`subscribe` that awaits its own `connect()` is what `ListenedIsCarried` turns on: the
channel of a handler is then neither subscribed nor refused, but `waiting`, and each
lemma of a step says where its channel goes.

**`AdminPageProofs`.** The pieces of the page, in the
composition: `SettledShowsTheRecord`, `UntypedWritesNothing`, `BoxTellsTheSearch`,
`ListAnswersTheQuery`, `CursorKeepsItsRow`, `SavingIsTrue`, `RangesAreTold`, and the
action property `ActionsAreTold`. One invariant per piece, their conjunction `PageInv` (with `PoolInv` of `LiveChannelPoolProofs`), and one lemma per
piece that its steps keep it; the other pieces' steps leave its variables alone. For
the buttons, `MenuInv` says that the form that waits is the one its run was sent
from, and that a run whose action is not pending was mounted anew or has another
beside it; only `Answer` ends a run (`OnlyAnswersEnd`), so the property is a fact
about that one action. For the form, `FormInv` says
that a control holds the text of one of the operator's entries, or the default of
what the record held when the page was rendered, and still holds unless others wrote
the field (`ControlTells`). That such a text goes through the control, the submission
and the coercion and comes out as what was meant is proved once for each kind of
column (texts, numbers, dates, boxes, structures), stage by stage. TLC has checked
`FormInv` for one-field forms of every configuration there is, not only those of
`admin_page`. For the days, that the recursive `DaysBefore` exists, that it grows and
that every day is in one month are inductions by a least counterexample; the day of
an instant is characterised once by products (`DayAtIs`), so that nothing else
divides. `DatesInv` is the property itself with the types: a range that no link
brought spans the days asked for, and the two months the code counts as shown follow the keyboard
wherever it goes by a week or to a date that the month beside has (`DaysCounted`);
in a narrow window the second of them is hidden, which is the named exception. `ReachAssumption`
says that the calendar begins before and ends after the days a behavior can reach,
that no zone is more than a day from UTC, and that no month is shorter than a week.

**`CliCommandsProofs`.** For any number of processes and files: `InFileOrder`.
`CommandInv` adds that a process at a file has every earlier one marked, that one
about to mark has run its file (`WalkIsOrdered`), and that all runs of a file but one
are owed to a rejection or a kill, that one being marked or about to be, by a process
that holds the lock or the claim (`RunsAreOwed`); that is what lets a file be run once
although two processes hold the same stale list. And for any number of scaffolding runs, files,
faults and foreign edits: `OutcomeIsTrue` and `ReplacesWhatItPlanned`. `ScaffoldInv`
says of every run that it has written the first part of its changes, in the order
of the files (`WrittenInOrder`); that a file nobody else wrote since holds what the
run wrote, or else what it saw (`KnownIsTrue`); and that the plan follows from what
was seen (`PlanIsFounded`). The next file is a least element, whose existence
(`LeastExists`) is an induction over the naturals that the library's well-founded
minima make first-order. And for any projects, command lines, mounts, resources and
numbers of kills and changes: `ProjectStaysWhole`. By itself it says nothing of how a
project came to be where it is, so `SetupInv` says that the last settled init *finds
itself* (`FindsItself`): the config is the one its plan would write, at a mount where
nobody else has a route; the files of that plan which are there hold what the plan
has; and the session module that the config imports resolves, or is one that the same
command line writes. Mount and API do not overlap, wherefore the API's own routes are
never met below the mount. It needs to know what may be where: modules by the
templates hold a stub or a preset, and only where init writes them, so that a deleted
one is written again (`ModulesAreTold`); a config's mount and API are in use
(`ConfigIsTold`); an ejected piece has all its parts (`PartsAreEjected`), since
`EjectPlan` puts the config last and a killed eject leaves it as it was. A killed
init, which writes its config first, leaves less than its plan and nothing else. The
assumptions are that the mounts in use are sequences of segments and include the ones
the code falls back on (`MountsAssumption`), and that markers, contents and
specifiers are told apart (`ProjectAssumption`). And for texts of any length, any of
the dialects and comments nested to any depth: `StatementsAreTheServers`, of files
that hold none of the constructs that a dialect in use reads differently
(`NoneUnlike`: all `Constructs` but nested comments on PostgreSQL and backticks
elsewhere). That condition is what the findings below are about; it is no weaker than
needed, for TLC finds a counterexample with each of the others in `Written`, except
for dollar quotes on MySQL, whose statements are refused. `LexersAgree` says that the
lexers are in the same mode at the same character, but for the words that only the
database's knows (`CodeMode`), and that a statement's keywords, tokens and comments
are marked as code (`MarksTell`). Its step rests on `ReadAlike`: outside of these
constructs (`Common`) the rules that fit are the same, which is shown one class of
rules at a time (`ServerToCode`, `CodeToServer`), and so is the longest of them.

Only model-checked, not proved: all liveness (`EveryCallEnds`, `LockComesFree`,
`ChannelsReachServer`, `RefusalsEnd`), which is out of the prover's reach, as is
`ENABLED`. Every invariant of a passing run is a theorem.

## Disagreements found

Runs that exhibit them:

- `migration_lock_rows`, `FinishedFileIsNotRerun` (a bug): on MySQL Drizzle's
  executor gives the advisory lock back before COMMIT. For a file without DDL the
  next holder's recheck does not see the marker and runs the whole file, which the
  marker's key then rolls back: `flowpanel migrate` fails with a duplicate-key
  error on a file that was applied properly. `NothingIsReplayed` proves that
  nothing worse happens while nothing else fails.
- `migration_sql_literal`, `ProtectedStays` (a bug): the lexer takes a backslash in
  a literal for an escape on every database; PostgreSQL and SQLite do not. A file
  with a literal that ends in one may be cut inside the next literal and sent in
  halves.
- `ejected_rows`, `EjectedReachTheirRows` (a bug): `eject` comments a resource out
  of the config, while the `actions.ts` it writes asks the request controller for
  that resource by name, and the controller knows the resources of the config only.
  Every ejected page fails as generated, though the template says that its data
  "still goes through FlowPanel's protected request controller".
- `realtime_bus_reconnect`, `ReconnectRefetches`: the guide says that a reconnect
  refetches current state. It does when the browser itself retries; when the
  source was closed, or replaced because the channel set changed, the fresh
  `EventSource` starts with `openedBefore = false` and its first `onopen`
  refetches nothing.
- `sync_batch`, `FailedBatchDeletedNothing` (a bug): `transaction()` of the Drizzle
  adapter hands the batch to the driver as an asynchronous callback
  (`adapter-drizzle/src/adapter.ts:284`). better-sqlite3 refuses one that returns a
  promise: it rolls back, with nothing done yet, and throws. The callback runs on
  (`bulk-action.ts:197`) and deletes the selection row by row outside of any
  transaction, while the caller is told that the batch failed and no entry is
  written. The test's "a bulk delete is all or nothing"
  (`delete-verification.test.ts:88`) brings a transaction of its own.

Met while modelling. Where a model has the behaviour, its property excepts it by
name; the others are only described.

*Migrations and scaffolding*

- "A second `flowpanel migrate` never replays a file" (`adapter-prisma/README.md:42`),
  and a "half-applied file is never silently retried" (`:46`, `adapters.mdx:54`).
  Both hold while the row stands. But an owner that is killed leaves it `running`, so
  that later runs end at the deadline, whose message asks to delete the row and not to
  repair the schema (`adapter-prisma/src/migration-executor.ts:149`). After that
  nothing tells of what was committed, and the next run sends every statement again
  (`OperatorDeletes`; `SchemaIsTold` and the ledger speak of what came after).
- A contender of `applyWithClaim` whose INSERT loses to a row deleted before
  `readClaim` looks is rejected with the duplicate-key error although the file was
  applied (`pc = "duplicateKey"`; `adapter-prisma/src/migration-executor.ts:131`).
- Other constructs the lexer and a server read differently (`Constructs` of
  `MigrationSql`): a `/*` inside a comment, which nests for the lexer on every
  database but not on MySQL and SQLite; brackets around PostgreSQL's array
  subscripts (`]]`); `$` inside words; backticks on PostgreSQL; dollar quotes
  outside it. A statement that is a `/*!...*/` comment alone is dropped.
- `expectedContent` and the conflict check of the scaffolding are compared while
  planning only (`cli/src/plan/types.ts:10`, `cli.mdx:28`); a file changed
  afterwards, for instance while `init` waits for an answer, is overwritten.
- A roll-back of scaffolding ends at its first failing step, and removes or
  overwrites what others did to the same files meanwhile, another run's result
  included (`OutcomeIsTrue` speaks of `known` files).
- `eject` always writes below `admin` (`cli/src/eject/copyTargets.ts:91`), wherever
  the config has mounted the admin. Under the default mount, doctor's catch-all check
  and init then report the ejected page as an overlapping route, though `eject.mdx`
  says that file routing prefers it.
- Doctor fails for a page of the user's own at `admin/<x>` without the eject marker,
  although its hint allows hand-written pages (`Unmarked`).
- `eject layout` conflicts with the layout init itself has written unless forced,
  and the ejected one no longer imports the stylesheet.
- An init with `--auth` does not write the module it names: deleted, it is missing
  and the same init fails. With Clerk, an init that found a module to import takes the
  provider's preset once that module is deleted, and conflicts with its own config
  (`TakesInitBack`: such a deletion ends `settled`).
- `cli.mdx` says that `new` writes `{ columns: ["id"] }`; it writes `{}`.

*Realtime*

- `RealtimeProvider` keeps callbacks in a Set: of two subscribers of a channel
  that pass the same function, the first to leave silences the other.
- A reconnecting connection of the standalone pool never catches up.
- With a connection string, several first subscriptions open a connection each;
  the last becomes `sub`, and a later unsubscribe goes to the wrong one, so that
  an event can arrive twice at a process. A connection made after `close()` is
  never quit, and a first subscription that failed is not retried while the
  channel has a handler (`refused`).

*Admission, routes, reads*

- A PEXPIRE that is lost leaves a key without end: once its count has reached the
  limit, every request of that user is refused for good (`RefusalsEnd` excepts
  these keys).
- Addresses that lead elsewhere (`Shadowed` of `RouteGraph`): a record with the id
  `new`; the page `/` of an admin with dashboards; a dashboard or page declared
  under a resource's path; ids that, joined by slashes, spell another path; the
  list of a resource named `stream`, a name that is not reserved; the id
  `bulk-actions`. `normalizeRoutePath` accepts a dashboard path with a trailing
  slash or a leading blank, and `encodeDashboardPath` uses the raw spelling, so the
  dashboard opens and its actions answer 404.
- Soft-deleted rows: `require-authorized.ts:66-67` says that which path a count
  takes "never changes the answer"; on the direct path (line 109) a filter that names
  the soft-delete column replaces the condition that hides deleted rows, on the
  other Drizzle adds that condition to it and Prisma does not (`SurfacesAgree`
  excepts such filters).
- The empty string as an id: `identityOf` takes it for none, `rowIdentity` for an
  id.

*Mutations*

- The built-in bulk delete returns no `refresh` and is not published, against
  `realtime.mdx:36`, "Generated resource mutations publish automatically".
- Under a race the trail has entries for writes that changed nothing
  (`PhantomsAreRaces` says: only under a race). An entry spells out only the first
  ten ids of a batch.
- On MySQL, Drizzle's create of a row without a key commits the row and then
  throws; an import reports such rows as failed. On SQLite a scoped create outside
  its scope is undone by a second statement.
- A bulk delete on an adapter without `transaction` stops half-way with no audit
  of the rows that went.
- An import's numbers of failed rows skip blank lines and the header. An export's
  headers are labels, and it prefixes some texts with `'`, so that an import does
  not read it back.

*The page in the browser*

- The drawer's footer offers the previous record's actions while the next loads or
  has failed (`actions.mdx:112`); an error body that is aborted in mid-read
  surfaces as the error of the record that was left.
- A blur after a refresh writes a cell's old value back. A search that is overtaken
  by a filter keeps its text in the box.
- The keyboard's cursor on an inner row stays at its position when rows change
  between unchanged ends: Enter opens another row.
- Ticked rows: `onClear` after a bulk action clears what was ticked meanwhile; a
  selection stays after a redirect or `refresh: false`; ids of rows deleted
  elsewhere make every bulk action answer "not found" until it is cleared.
- The buttons of a row, a dashboard or a selection share one `pending`: the first of
  two runs to end clears it, and the other's button can be pressed while its action
  still runs (`PressedOnce`). The run of a form that was dismissed closes the form
  of another action that is open by then (`TypedIsKept`).
- Field errors that `actions.mdx:153` has rendered "against the matching inputs" are
  shown nowhere when the form was dismissed while it was sent (Escape works although
  Cancel is disabled), when the action has an `inputSchema` and no form, or when
  they are of a key of the `inputSchema` that the form does not show. A failure
  without field errors closes the form, and what was typed is gone. A drawer action
  that answers without a message and with `refresh: false` says nothing at all.
- Of two overlapping runs of `useAdminMutation` the first to end clears `pending`.
  Two tabs lose each other's saved views.
- "Roving tabstop - exactly one day across all rendered months is tabbable"
  (`Calendar.tsx:125`): the buttons beside the titles turn the months and leave the
  focused day, and PageDown from the second month by a date that the next month
  lacks ends one month further than the calendar turns. In both cases no day can
  be reached with Tab (excepted in `RangesAreTold` as `adrift`). And in a window
  narrower than `sm` the second month is hidden (`DateRangeFilter.tsx:259`) while
  `moveFocus` counts its days as shown: an arrow or a page key from the month that
  is seen makes the tabbable day a hidden one, which takes no focus, and turns nothing
  (excepted by `~wide`).
- A row's place in the whole list, meant for `aria-rowindex` (`DataTable.tsx:370`), is
  also its index into the page's prerendered cells (`DataTableRow.tsx:116`): from page 2
  on custom renderers, joined columns and reference labels are not shown.
- After a click the arrows start from the day focused before, which `handleSelect`
  does not move. Home and End go to Sunday and Saturday also where the rows of the
  calendar begin with a Monday.
- The days of the filter are the operator's own in the browser and UTC's in the list
  ("today" is picked as the local date and answered as the UTC day of that name).
- A dashboard's preset is written beside `?from=&to=` in the URL, which win
  (`dashboard-date-range.tsx`, `date-range.ts:37`), while the picker shows the
  preset; a configured default range is shown as the last seven days.

*The edit form* (all of them excepted in `SavingIsTrue`)

- A form posts every field it shows, so that it writes old values over what others
  wrote meanwhile.
- `resource-form.ts:18-21` says that a field the server may withhold is left out of
  the shapes; the code looks at `hidden` only. A nullable field or box withheld by
  `requireRole` is read as null or false, which refuses the whole form or, where
  the field may be written, clears it.
- A read-only field is posted ("keeping its value in the submission") and then
  refused by the route. A field with `requireRole` ignores `readOnly`
  (`field-pipeline.ts:71-79`). A generated form offers fields that
  `fieldAccess.write` denies, so that it can never be saved.
- Date inputs get the stored instant, which they do not accept, and stay blank:
  saving writes null to a nullable date. The controls for JSON and tags start
  empty: saving wipes nullable structures and lists. JSON typed in is stored as a
  text. Fields that may be written and not read start blank and become null.
- A null boolean becomes false, an empty text null; lines are joined by a one-line
  input or get CRLF in a text area; clearing a column that takes no null silently
  keeps the old value; a box whose `hidden` is a function can be neither ticked
  nor cleared; a list whose `hidden` is one is refused for an array column and
  stored as the text of its JSON for a JSON column.
- `adapters.mdx:137` says that enum columns get a text input; `AutoForm.tsx:19`
  makes them a select.

## What is not modelled

*Within the components that are.* Values, except where a property tells them apart;
wording; durations (timers are pending or not); HTTP; the publishing connection of
Redis; tenant scopes of writes (a row out of scope is absent); temporary files and
directories; rows without an identity in the table; empty and dot segments of
addresses; the server's time zone, in which local times of a form are read; the
create form, its defaults, authors' schemas and validators; the form library's own
validation; `useOptimisticAction` and the client's mutation hook. Refusals of a
mutation by its guards are one nondeterministic step: which guard refuses whom is
a stateless decision, and on the reading side `ReadSurfaces` makes it. External and
modelled from their use: the databases (COMMIT, implicit commits, locks, unique
keys, lost answers, their SQL lexers), Redis and its client, `EventSource`, the
browser's inputs and navigation, the file system, editors, the operator.

*Components left out.* The command palette; the queue board, a stateless wrapper of
BullMQ; questions, source-text edits and version checks (besides FlowPanel's own) of
the CLI and its `dev` command; rendering, widgets and
charts; the typed client beyond its addresses; introspection; the test helpers and
lint rules; and everything outside the running system: the documentation site and
its scripts, the examples, the end-to-end tests. By lines these are most of the
repository, and the models stand for about a sixth of it. They hold little that a
model could show wrong: markup, text and one-to-one translations of a value, where
a definition could only repeat the code.

*Hazards without a property*, listed with a note in `PROJECT.json`: the refresh
debounce that a stream of events postpones (durations); the connection made
after `close()` (`Connected` of a closed publisher has it; no property says that
every connection is quit); and the index of a row into the page's cells, which is
wrong on every page after the first, however it is reached.

## Plan

Done, in this order: the migration executors with their proofs; `MigrateCommand`;
`RealtimeBus`, `LiveChannelPool`, `RedisPublisher` and `RealtimeServer`;
`ResourceMutations`; `FilesystemPlan`; `RequestAdmission`, `ReadSurfaces` and
`RouteGraph`; the pieces of the page; `MigrationSql`; the edit form, the ranges of days and
the buttons of actions; the proofs of
`RealtimeBus`, `ResourceMutations`, `AdminRequests`, the page and `MigrateCommand`;
`ServerProcess` and `ProjectSetup`; the proofs of `RealtimeServer`, `FilesystemPlan`,
`ProjectSetup`, `MigrationSql`, `RequestAdmission`'s windows, the agreement of
`ReadSurfaces`, `RouteGraph`, `EditForm` and `DateRanges`.

What a next step would be:

1. The create form over the operators of `EditForm`.
2. An abstract delivery of realtime (an event published is followed by a refresh of
   every page that shows it) with `RealtimeServer` and `RealtimeBus` shown to
   implement their halves.
3. Tenant scopes of writes in `ResourceMutations`, as `ReadSurfaces` has them for
   reads.
