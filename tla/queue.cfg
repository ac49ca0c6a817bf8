SPECIFICATION FairSpec
CONSTANTS
  p1 = p1  p2 = p2  w1 = w1  w2 = w2  e1 = e1  e2 = e2
  Photos = {p1, p2}
  Events = {e1}
  EventOf <- OneAlbum
  Workers = {w1, w2}
  NoWorker = NoWorker
  NoPhoto = NoPhoto
  Unattested = {}
  MaxAttempts = 2
  BatchSize = 2
  MaxKills = 1
  MaxOverruns = 0
  ClaimBound = 5
INVARIANTS
  TypeOK
  SoleHolder
  CountedOnce
  FacesOnce
  ReadyMeansDrained
  PhotoFollowsJob
PROPERTIES
  SettledStaysSettled
  QueueSpec
  JobsSettle
  AlbumsOpen
CHECK_DEADLOCK FALSE
