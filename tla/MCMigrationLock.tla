---------------------------- MODULE MCMigrationLock ----------------------------
EXTENDS MigrationLock, TLC

CallSymmetry == Permutations(Calls)

\* Statement 2 of the file alters the schema, the others change rows.
SecondIsDDL == {2}
RowsOnly == {}
=============================================================================
