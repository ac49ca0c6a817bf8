SPECIFICATION FairSpec
CONSTANTS
  p1 = p1  c1 = c1
  Photos = {p1}
  Collectors = {c1}
  NoCollector = NoCollector
  NoKey = NoKey
  MaxAttempts = 1
  BatchSize = 2
  Forever = FALSE
  MaxKills = 1
  MaxOverruns = 0
  ClaimBound = 4
INVARIANTS
  TypeOK
  ShownIsStored
  NothingForgotten
PROPERTIES
  AlbumErased
