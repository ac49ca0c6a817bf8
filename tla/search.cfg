SPECIFICATION Spec
CONSTANTS
  r1 = r1  r2 = r2  r3 = r3  o1 = o1  t1 = t1  t2 = t2
  p1 = p1  p2 = p2  f1 = f1  f2 = f2  f3 = f3
  Requests = {r1, r2, r3}
  OptOuts = {o1}
  Templates = {t1, t2}
  Selfie <- SelfieOf
  Photos = {p1, p2}
  Faces = {f1, f2, f3}
  PhotoOf <- InPhoto
  Tier <- TierOf
  Distance <- Distances
  ExclusionRadius = 32
  HighDistance = 50
  LowDistance = 60
  RateLimit = 1
  AtOnce = 2
  MaxPasses = 2
INVARIANTS
  TypeOK
  ExcludedUnseen
  LimitHolds
  NothingOutlivesEvent
  AnswersOnRecord
  FaceCountExact
CHECK_DEADLOCK FALSE
