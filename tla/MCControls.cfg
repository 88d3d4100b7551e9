SPECIFICATION Spec
CONSTANTS
  Clients = {c1, c2}
  Main = Main
  Increments <- UpAndDown
  DefaultVolume = 1
  MaxVolume = 2
  MaxRequests = 2
SYMMETRY Interchangeable
INVARIANTS TypeOK PauseAgrees VolumeAgrees AnnouncementResumes RestoredAsSaved
