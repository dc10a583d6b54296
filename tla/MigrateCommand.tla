----------------------------- MODULE MigrateCommand -----------------------------
(***************************************************************************)
(* `flowpanel migrate`: each process lists the applied ids once, then      *)
(* walks the sorted files and calls the adapter for each id missing from   *)
(* that list.  The list is a snapshot; other processes invalidate it.      *)
(*                                                                         *)
(* The kits' adapters recheck the id under a lock.  On PostgreSQL and      *)
(* SQLite file and marker are one transaction; MySQL commits with every    *)
(* statement that changes the schema (MigrationLock, MigrationClaim), so   *)
(* that they come apart, as under the legacy hooks, which run the SQL and  *)
(* mark the id in two calls and recheck nothing.                           *)
(***************************************************************************)
EXTENDS Integers

CONSTANTS
  Processes,       \* runs of `flowpanel migrate`
  NMigrations,     \* files of flowpanel/migrations in sorted order
  Adapters,        \* those considered: "transactional", "mysql", "legacy" (hooks)
  MaxRejections    \* bound on rejected adapter calls and killed processes

ASSUME MigrationsAssumption == NMigrations \in Nat \ {0}
ASSUME ModeAssumption ==
  Adapters \subseteq {"transactional", "mysql", "legacy"} /\ MaxRejections \in Nat

VARIABLES
  adapter,    \* the adapter of the project
  stage,      \* "list", "file", "mark" (not transactional), "done", "exit" (error), "dead"
  listed,     \* the process's snapshot of applied ids
  place,      \* the file it is at
  appliedNow, \* what it reports as applied
  ran,        \* database: how often a file's SQL took effect, whole or in part
  marked,     \* database: ids in the applied table
  rejections

command == <<adapter, stage, listed, place, appliedNow, ran, marked, rejections>>

Migrations == 1..NMigrations
Exited == {"done", "exit", "dead"}

Transactional == adapter = "transactional"
Legacy == adapter = "legacy"

CommandInit ==
  /\ adapter \in Adapters
  /\ stage = [p \in Processes |-> "list"]
  /\ listed = [p \in Processes |-> {}]
  /\ place = [p \in Processes |-> 1]
  /\ appliedNow = [p \in Processes |-> {}]
  /\ ran = [f \in Migrations |-> 0]
  /\ marked = {}
  /\ rejections = 0

Proceed(p, next) == stage' = [stage EXCEPT ![p] = next]
Answered == UNCHANGED rejections
Rejected == rejections < MaxRejections /\ rejections' = rejections + 1

\* The next file, or the end of the loop.
Advance(p) ==
  /\ place' = [place EXCEPT ![p] = @ + 1]
  /\ Proceed(p, IF place[p] = NMigrations THEN "done" ELSE "file")

\* listAppliedMigrations, once.
ListApplied(p) ==
  /\ stage[p] = "list"
  /\ \/ Answered /\ listed' = [listed EXCEPT ![p] = marked] /\ Proceed(p, "file")
     \/ Rejected /\ Proceed(p, "exit") /\ UNCHANGED listed
  /\ UNCHANGED <<place, appliedNow, ran, marked>>

SkipApplied(p) ==
  /\ stage[p] = "file"
  /\ place[p] \in listed[p]
  /\ Advance(p)
  /\ Answered
  /\ UNCHANGED <<listed, appliedNow, ran, marked>>

Report(p) == appliedNow' = [appliedNow EXCEPT ![p] = @ \cup {place[p]}]

\* Faulty: the adapter trusts the caller's snapshot.
AdapterAppliesBlindly(f) ==
  /\ ran' = [ran EXCEPT ![f] = @ + 1]
  /\ marked' = marked \cup {f}

\* applyMigration(id, sql): nothing if the id is marked by now.
AdapterApplies(f) ==
  IF f \in marked
  THEN UNCHANGED <<ran, marked>>
  ELSE /\ ran' = [ran EXCEPT ![f] = @ + 1]
       /\ marked' = marked \cup {f}

\* MySQL's adapters come to their marker through RunSql and MarkSql.
OneStep(p) == Transactional \/ (~Legacy /\ place[p] \in marked)

\* Faulty: a rejected file is passed over.
ApplyAndCarryOn(p) ==
  /\ stage[p] = "file" /\ place[p] \notin listed[p] /\ OneStep(p)
  /\ \/ Answered /\ AdapterApplies(place[p]) /\ Report(p) /\ Advance(p)
     \/ Rejected /\ Advance(p) /\ UNCHANGED <<appliedNow, ran, marked>>
  /\ UNCHANGED listed

\* A rejection leaves the loop; its answer may be lost after the effect.
Apply(p) ==
  /\ stage[p] = "file" /\ place[p] \notin listed[p] /\ OneStep(p)
  /\ \/ Answered /\ AdapterApplies(place[p]) /\ Report(p) /\ Advance(p)
     \/ /\ Rejected
        /\ AdapterApplies(place[p]) \/ UNCHANGED <<ran, marked>>
        /\ Proceed(p, "exit")
        /\ UNCHANGED <<appliedNow, place>>
  /\ UNCHANGED listed

\* Faulty: no recheck of the id and no lock.
MayRunAnyway(p) == TRUE

\* MySQL's adapters hold a lock or a claim over the recheck, the SQL and the marker.
\* The claim of a killed process makes later ones fail until somebody deletes it;
\* here it may always have been.
MayRun(p) ==
  \/ Legacy
  \/ /\ place[p] \notin marked
     /\ \A q \in Processes : stage[q] = "mark" => place[q] # place[p]

SqlTakesEffect(p) == ran' = [ran EXCEPT ![place[p]] = @ + 1]

\* Faulty: marks the id although the SQL was rejected.
RunSqlIgnoringErrors(p) ==
  /\ stage[p] = "file" /\ place[p] \notin listed[p] /\ ~Transactional
  /\ \/ Answered /\ MayRun(p) /\ SqlTakesEffect(p)
     \/ Rejected /\ UNCHANGED ran
  /\ Proceed(p, "mark")
  /\ UNCHANGED <<listed, place, appliedNow, marked>>

\* The SQL.  Rejected, some of it may have taken effect; or none, also because the
\* lock or the claim was not to be had, or MySQL rolled back a file of rows only.
RunSql(p) ==
  /\ stage[p] = "file" /\ place[p] \notin listed[p] /\ ~Transactional
  /\ \/ Answered /\ MayRun(p) /\ SqlTakesEffect(p) /\ Proceed(p, "mark")
     \/ Rejected /\ MayRun(p) /\ SqlTakesEffect(p) /\ Proceed(p, "exit")
     \/ Rejected /\ UNCHANGED ran /\ Proceed(p, "exit")
  /\ UNCHANGED <<listed, place, appliedNow, marked>>

\* The marker.  An INSERT fails on an id another process has marked meanwhile.
MarkSql(p) ==
  /\ stage[p] = "mark"
  /\ \/ /\ Answered /\ place[p] \notin marked
        /\ marked' = marked \cup {place[p]}
        /\ Report(p) /\ Advance(p)
     \/ /\ Answered /\ place[p] \in marked
        /\ Proceed(p, "exit") /\ UNCHANGED <<marked, appliedNow, place>>
     \/ /\ Rejected
        /\ marked' = marked \cup {place[p]} \/ UNCHANGED marked
        /\ Proceed(p, "exit") /\ UNCHANGED <<appliedNow, place>>
  /\ UNCHANGED <<listed, ran>>

KillProcess(p) ==
  /\ stage[p] \notin Exited
  /\ Rejected
  /\ Proceed(p, "dead")
  /\ UNCHANGED <<listed, place, appliedNow, ran, marked>>

CommandNext ==
  /\ \E p \in Processes :
       \/ ListApplied(p) \/ SkipApplied(p) \/ Apply(p)
       \/ RunSql(p) \/ MarkSql(p) \/ KillProcess(p)
  /\ UNCHANGED adapter

-----------------------------------------------------------------------------
\* A file is only run and only marked over files that are all marked, and a mark
\* stands for a file that ran: the loop stops at the first rejection.  The snapshot
\* only makes a process ask again: those that listed the ids at the same time run
\* each file once between them, and where file and marker are one transaction no
\* failure changes that; on MySQL each further run is owed to a rejection or a kill
\* between them.  A process that ended well leaves every file of the directory
\* applied, by itself or not.
InFileOrder ==
  /\ \A f \in marked : ran[f] >= 1
  /\ \A f, e \in Migrations : (f \in marked \/ ran[f] >= 1) /\ e < f => e \in marked
  /\ Transactional => \A f \in Migrations : ran[f] = IF f \in marked THEN 1 ELSE 0
  /\ ~Legacy => \A f \in Migrations : ran[f] <= 1 + rejections
  /\ \A p \in Processes : stage[p] = "done" => marked = Migrations
=============================================================================
