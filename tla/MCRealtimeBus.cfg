\* Two subscribers, two channels, two mutations.
CONSTANTS
  s1 = s1
  s2 = s2
  Subscribers = {s1, s2}
  a = a
  b = b
  Channels = {a, b}
  Callback <- OwnCallback
  OfflineAfter = 2
  MaxEvents = 2
SPECIFICATION FairSpec
INVARIANTS NeverStranded StatusIsTrue ReceivedIsRefreshed SubscriberIsHeard
PROPERTY ChannelsReachServer
CHECK_DEADLOCK FALSE
