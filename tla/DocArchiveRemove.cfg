SPECIFICATION Spec
CONSTANTS
  u1 = u1
  u2 = u2
  Users = {u1, u2}
  Music = {1, 2}
  Torn = 0
  Removers = {u1}
  MaxCrashes = 0
PROPERTIES RemovedFromRandomList
CHECK_DEADLOCK FALSE
