SPECIFICATION FairSpec
CONSTANTS
  r0 = r0  r1 = r1  r2 = r2  q1 = q1  q2 = q2
  k1 = k1  k2 = k2  c1 = c1  c2 = c2
  NumFaces = 3
  Runs = {r1, r2}
  Earlier = r0
  MinSizes = {2}
  NoCluster = NoCluster
  Requests = {q1, q2}
  Frames <- AllFrames
  MaxFrames = 2
  NoThread = NoThread
  NoRequest = NoRequest
  MaxFailures = 2
  MaxRestarts = 1
  Keys = {k1, k2}
  Unsafe = {k2}
  Collectors = {c1, c2}
  NoCollector = NoCollector
  NoKey = NoKey
  MaxAttempts = 2
  BatchSize = 2
  Forever = FALSE
  MaxKills = 1
  MaxOverruns = 1
  ClaimBound = 5
CHECK_DEADLOCK FALSE
INVARIANTS
  TypeOK
  DoneMeansErased
  NoEarlyDeadLetter
  FacesInTheirCluster
  QuietRunsExact
  EngineWhole
PROPERTIES
  EnrolmentsAnswered
  ErasureSettles
