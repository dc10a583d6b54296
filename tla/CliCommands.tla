------------------------------ MODULE CliCommands ------------------------------
(***************************************************************************)
(* What the CLI does to a project and its database: the transaction that   *)
(* writes files, what init, doctor, new and eject write over the life of a *)
(* project, `flowpanel migrate` with its walk over the migrations, and the *)
(* cutting of one of them into statements.  They share no state but the    *)
(* files, which migrate only reads, and the transaction treats as opaque;  *)
(* one piece moves in a behavior.                                          *)
(***************************************************************************)
EXTENDS FilesystemPlan, ProjectSetup, MigrateCommand, MigrationSql

VARIABLE piece    \* the piece that moves

cli == <<piece, vars, setup, command, sql>>

Movers == {"scaffold", "setup", "migrate", "split"}

\* A piece at rest has one value.
ScaffoldRests == \A f \in Files : disk[f] = Absent
SetupRests == SetupFrom(CHOOSE h \in Hosts : TRUE)
CommandRests == adapter = CHOOSE a \in Adapters : TRUE
SqlRests == dialect = (CHOOSE d \in Dialects : TRUE) /\ text = <<Eof, Eof, Eof>>

CliInit ==
  /\ piece \in Movers
  /\ Init /\ (piece = "scaffold" \/ ScaffoldRests)
  /\ SetupInit /\ (piece = "setup" \/ SetupRests)
  /\ CommandInit /\ (piece = "migrate" \/ CommandRests)
  /\ SqlInit /\ (piece = "split" \/ SqlRests)

CliNext ==
  /\ UNCHANGED piece
  /\ \/ piece = "scaffold" /\ Next /\ UNCHANGED <<setup, command, sql>>
     \/ piece = "setup" /\ SetupNext /\ UNCHANGED <<vars, command, sql>>
     \/ piece = "migrate" /\ CommandNext /\ UNCHANGED <<vars, setup, sql>>
     \/ piece = "split" /\ SqlNext /\ UNCHANGED <<vars, setup, command>>

CliSpec == CliInit /\ [][CliNext]_cli
=============================================================================
