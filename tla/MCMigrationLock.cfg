\* Three calls of a file of row changes around a DDL statement, three faults.
CONSTANTS
  c1 = c1
  c2 = c2
  c3 = c3
  Calls = {c1, c2, c3}
  Nobody = Nobody
  NStatements = 3
  DDL <- SecondIsDDL
  Databases = {"mysql", "transactional"}
  MaxFaults = 3
SPECIFICATION FairSpec
INVARIANTS
  MarkIsTheFile
  NoReplayWithoutFault
PROPERTY LockComesFree
CHECK_DEADLOCK FALSE
