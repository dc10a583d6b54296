\* Three contending calls of a two-statement file, two faults or kills.
CONSTANTS
  c1 = c1
  c2 = c2
  c3 = c3
  Calls = {c1, c2, c3}
  Nobody = Nobody
  NStatements = 2
  MaxPolls = 1
  MaxFaults = 2
SPECIFICATION FairSpec
INVARIANTS
  OneBody
  SchemaIsTold
PROPERTIES
  FailedClaimHolds
  ImplementsLedger
  EveryCallEnds
CHECK_DEADLOCK FALSE
