\* Two streams, two channels, two publishers of any transport, one refusal of
\* Redis; two requests, two rows, every kind of adapter, two failing calls.
CONSTANTS
  s1 = s1
  s2 = s2
  Handlers = {s1, s2}
  ch1 = ch1
  ch2 = ch2
  Channels = {ch1, ch2}
  p1 = p1
  p2 = p2
  Publishers = {p1, p2}
  c1 = c1
  c2 = c2
  Connections = {c1, c2}
  Options = {"memory", "url", "client"}
  Nothing = Nothing
  MaxPending = 2
  MaxRefusals = 1
  q1 = q1
  q2 = q2
  Requests = {q1, q2}
  r1 = r1
  r2 = r2
  Rows = {r1, r2}
  Adapters <- AllAdapters
  MaxFaults = 2
SPECIFICATION ProcessSpec
SYMMETRY Symmetry
INVARIANTS HandlersAreStreams ListenedIsCarried EventsReachTheirStreams BulkIsAllOrNothing AnswersAreTrue PhantomsAreRaces
CHECK_DEADLOCK FALSE
