\* As in MCCliCommands.cfg; the project is set up, "users" added and ejected.
CONSTANTS
  r1 = r1
  r2 = r2
  Runs = {r1, r2}
  NFiles = 3
  Commands <- IntentsOfCommands
  Absent = Absent
  MaxFaults = 2
  MaxEdits = 1
  p1 = p1
  p2 = p2
  p3 = p3
  Processes = {p1, p2, p3}
  NMigrations = 3
  Adapters = {"transactional", "legacy"}
  MaxRejections = 2
  Dialects = {"pg", "mysql", "sqlite"}
  Written = {}
  MaxDepth = 2
  Hosts <- HostsOfProjects
  InitOptions <- CommandLines
  DoctorPaths <- PathsToDoctor
  Arrivals <- ArrivalsSeen
  Pages <- OwnPages
  Mounts <- MountsInUse
  Apis <- ApisInUse
  Resources = {"users"}
  Dashboards = {"reports"}
  Missing = Missing
  Dynamic = Dynamic
  MaxKills = 1
  MaxChanges = 1
SPECIFICATION CliSpec
INVARIANT EjectedReachTheirRows
CHECK_DEADLOCK FALSE
