---------------------------- MODULE MigrationLedger ----------------------------
(***************************************************************************)
(* What applyMigration(id, sql) promises about one migration file, without *)
(* saying how: one run at a time, which begins at the first statement of a *)
(* file nothing of which is known to be applied, sends the statements one  *)
(* after the other, each once, then writes the marker.  A run that leaves  *)
(* half-way is followed by another only after an operator, who repairs the *)
(* schema, or who lets the file start over on what is there.               *)
(* packages/core documents the hook; both SQL adapters implement it.       *)
(***************************************************************************)
EXTENDS Naturals

CONSTANT NStatements    \* statements of the file, at least one

VARIABLES
  effects,   \* how often each statement took effect since the last repair
  applied,   \* how many the runs since the operator's last act have sent
  marked,    \* the id is a row of _flowpanel_migrations
  live       \* a run is between its first statement and its marker

ledgerVars == <<effects, applied, marked, live>>

LedgerInit ==
  /\ effects = [s \in 1..NStatements |-> 0]
  /\ applied = 0
  /\ marked = FALSE
  /\ live = FALSE

Begin ==
  /\ ~live /\ ~marked
  /\ applied = 0
  /\ live' = TRUE
  /\ UNCHANGED <<effects, applied, marked>>

\* The next statement in file order takes effect; the run may see an error.
ExecuteNext ==
  /\ live
  /\ applied < NStatements
  /\ applied' = applied + 1
  /\ effects' = [effects EXCEPT ![applied + 1] = @ + 1]
  /\ live' \in BOOLEAN
  /\ UNCHANGED marked

\* The marker is written once the whole file is in the schema.
Mark ==
  /\ live
  /\ applied = NStatements
  /\ marked' = TRUE
  /\ live' = FALSE
  /\ UNCHANGED <<effects, applied>>

\* A run fails or is killed.
Leave ==
  /\ live
  /\ live' = FALSE
  /\ UNCHANGED <<effects, applied, marked>>

\* An operator undoes a half-applied file.
Repair ==
  /\ ~live /\ ~marked
  /\ applied' = 0
  /\ effects' = [s \in 1..NStatements |-> 0]
  /\ UNCHANGED <<marked, live>>

\* An operator lets the next run begin on a schema as the last one left it.
StartOver ==
  /\ ~live /\ ~marked
  /\ applied' = 0
  /\ UNCHANGED <<effects, marked, live>>

LedgerNext == Begin \/ ExecuteNext \/ Mark \/ Leave \/ Repair \/ StartOver

LedgerSpec == LedgerInit /\ [][LedgerNext]_ledgerVars
=============================================================================
