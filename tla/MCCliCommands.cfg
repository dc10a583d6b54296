\* Two runs, three files, two faults or kills and a change by somebody else; three
\* processes, three migrations, two rejections; files of the three dialects with
\* none of the constructs the lexers are known to read differently; five projects,
\* a kill and a change by the user.
CONSTANTS
  r1 = r1
  r2 = r2
  Runs = {r1, r2}
  NFiles = 3
  Commands <- IntentsOfCommands
  Absent = Absent
  MaxFaults = 2
  MaxEdits = 1
  p1 = p1
  p2 = p2
  p3 = p3
  Processes = {p1, p2, p3}
  NMigrations = 3
  Adapters = {"transactional", "mysql", "legacy"}
  MaxRejections = 2
  Dialects = {"pg", "mysql", "sqlite"}
  Written = {}
  MaxDepth = 2
  Hosts <- HostsOfProjects
  InitOptions <- CommandLines
  DoctorPaths <- PathsToDoctor
  Arrivals <- ArrivalsSeen
  Pages <- OwnPages
  Mounts <- MountsInUse
  Apis <- ApisInUse
  Resources = {"users"}
  Dashboards = {"reports"}
  Missing = Missing
  Dynamic = Dynamic
  MaxKills = 1
  MaxChanges = 1
SPECIFICATION CliSpec
INVARIANTS OutcomeIsTrue ProjectStaysWhole InFileOrder StatementsAreTheServers
PROPERTY ReplacesWhatItPlanned
CHECK_DEADLOCK FALSE
