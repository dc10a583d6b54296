\* Two rows of the caller's, one of them deleted, and one of another tenant; one
\* field whose policy may change its mind; two changes or writes.  Configurations of
\* at most two resources, two dashboards, a page and a queue over the paths that
\* could meet; ids that are words of the routes or hold a slash.
\* Two requests at a time of one user, two reads each.
CONSTANTS
  id = id
  secret = secret
  gone = gone
  r1 = r1
  r2 = r2
  r3 = r3
  Rows <- MCRows
  Mine <- MCMine
  Fields <- MCFields
  Values <- MCValues
  Key = id
  Gone = gone
  Live = 0
  Dynamic <- MCDynamic
  Configs <- MCConfigs
  Requests <- MCRequests
  Databases <- MCDatabases
  NoField = NoField
  NoText = NoText
  NoRow = NoRow
  MaxChanges = 2
  Sites <- MCSites
  Ids <- MCIds
  SafeAtoms <- MCSafeAtoms
  Lowercase <- MCLowercase
  q1 = q1
  q2 = q2
  Arrivals = {q1, q2}
  readA = readA
  readB = readB
  Reads = {readA, readB}
  k1 = k1
  Keys = {k1}
  Limit = 2
  Window = 2
  MaxTries = 2
SPECIFICATION RequestsSpec
INVARIANTS
  EveryAddressArrives UnreadableHasNoSay RowsAreTheCallers SurfacesAgree
  OneAdmissionPerRequest WindowIsBounded
PROPERTIES RefusalsEnd
CHECK_DEADLOCK FALSE
