SPECIFICATION Spec
CONSTANTS
  c1 = c1
  c2 = c2
  m1 = m1
  m2 = m2
  p1 = p1
  p2 = p2
  None = None
  Clients = {c1, c2}
  PlayThreads = {p1, p2}
  Music = {m1, m2}
  Own <- OwnNone
  PlaylistMinSize = 1
  Commands = {"add", "rmIndex", "rmId", "list", "listN", "clear", "next", "stop"}
  MaxLen = 2
SYMMETRY Interchangeable
INVARIANTS LoadsOnlyWhenIdle NoLostWakeup ViewInOrder FoundIsErased PlaylistArchived PlayingFlagAccurate
PROPERTIES ImplementsJukebox
CHECK_DEADLOCK FALSE
