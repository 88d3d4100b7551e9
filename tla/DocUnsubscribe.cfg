SPECIFICATION Spec
CONSTANTS
  c1 = c1
  c2 = c2
  m1 = m1
  m2 = m2
  p1 = p1
  p2 = p2
  None = None
  Clients = {c1, c2}
  PlayThreads = {p1, p2}
  Music = {m1, m2}
  Own <- OwnNone
  PlaylistMinSize = 1
  Commands = {"random", "subscribe", "unsubscribe"}
  MaxLen = 2
PROPERTIES UnsubscribedIsNotCalled
CHECK_DEADLOCK FALSE
