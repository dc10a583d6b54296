\* A mutation while the provider waits to reconnect.
CONSTANTS
  s1 = s1
  s2 = s2
  Subscribers = {s1, s2}
  a = a
  b = b
  Channels = {a, b}
  Callback <- OwnCallback
  OfflineAfter = 2
  MaxEvents = 1
SPECIFICATION Spec
INVARIANT ReconnectRefetches
CHECK_DEADLOCK FALSE
