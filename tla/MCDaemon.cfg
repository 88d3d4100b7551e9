SPECIFICATION FairSpec
CONSTANTS
  Music = {m1, m2}
  Torn = Torn
  MaxLen = 2
INVARIANTS TypeOK SleepersWereMissed DestroyedInOrder RestartKeepsPlaylist
PROPERTIES DaemonEnds
