SPECIFICATION FairSpec
CONSTANTS
  u1 = u1
  u2 = u2
  Users = {u1, u2}
  Music = {1, 2, 3}
  Torn = 0
  Removers = {u1}
  MaxCrashes = 1
INVARIANTS TypeOK NoChangeForgotten RoundRefersToMusics
PROPERTIES SavedOnceQuiet DestructionEnds EveryMusicComesUp
CHECK_DEADLOCK FALSE
