\* One request with any adapter, two rows, no failing call; the streams hardly move.
CONSTANTS
  s1 = s1
  Handlers = {s1}
  ch1 = ch1
  Channels = {ch1}
  p1 = p1
  Publishers = {p1}
  c1 = c1
  Connections = {c1}
  Options = {"memory"}
  Nothing = Nothing
  MaxPending = 1
  MaxRefusals = 0
  q1 = q1
  Requests = {q1}
  r1 = r1
  r2 = r2
  Rows = {r1, r2}
  Adapters <- AllAdapters
  MaxFaults = 0
SPECIFICATION ProcessSpec
INVARIANT FailedBatchDeletedNothing
CHECK_DEADLOCK FALSE
