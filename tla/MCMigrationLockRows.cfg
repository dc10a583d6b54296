\* Drizzle on MySQL: a file without DDL, so that the marker stays in the transaction.
CONSTANTS
  c1 = c1
  c2 = c2
  c3 = c3
  Calls = {c1, c2, c3}
  Nobody = Nobody
  NStatements = 2
  DDL <- RowsOnly
  Databases = {"mysql"}
  MaxFaults = 0
SPECIFICATION Spec
SYMMETRY CallSymmetry
INVARIANT FinishedFileIsNotRerun
CHECK_DEADLOCK FALSE
