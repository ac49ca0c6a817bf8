SPECIFICATION Spec
CONSTANTS
  p1 = p1  p2 = p2  w1 = w1  w2 = w2  e1 = e1  e2 = e2
  Photos = {p1, p2}
  Events = {e1, e2}
  EventOf <- TwoAlbums
  Workers = {w1, w2}
  NoWorker = NoWorker
  NoPhoto = NoPhoto
  Unattested = {e2}
  MaxAttempts = 2
  BatchSize = 2
  MaxKills = 0
  MaxOverruns = 1
  ClaimBound = 3
INVARIANTS
  RunningIsLeased
  DoneIsSearchable
CHECK_DEADLOCK FALSE
