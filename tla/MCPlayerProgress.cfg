SPECIFICATION FairSpec
CONSTANTS
  c1 = c1
  c2 = c2
  m1 = m1
  m2 = m2
  p1 = p1
  p2 = p2
  None = None
  Clients = {c1, c2}
  PlayThreads = {p1, p2}
  Music = {m1}
  Own <- OwnNone
  PlaylistMinSize = 2
  Commands = {"add", "random", "subscribe", "unsubscribe", "next"}
  MaxLen = 3
PROPERTIES WaiterIsWoken PlaylistThreadTakes SubscribeReturns SubscribersTakeTurns
CHECK_DEADLOCK FALSE
