SPECIFICATION EvaluationSpec
CONSTANTS
  p1 = p1  p2 = p2  p3 = p3  a = a  n1 = n1  n2 = n2
  Photos = {p1, p2, p3}
  People = {a}
  Detections <- AlbumFaces
  PhotoOf <- AlbumPhotoOf
  Album <- AlbumQuality
  CropShows <- AlbumCrops
  Alike <- AlbumAlike
  Policies <- AllPolicies
  Shipped <- Strict
  Nobody = Nobody
  Dropped = Dropped
  NoGroup = NoGroup
  StalePages = TRUE
  MaxSelfies = 1
  MaxEdits = 3
  MaxExports = 1
  MaxInits = 1
  MaxPolicyEdits = 0
  TargetPrecision <- Precision
  TargetRecall <- Recall
  Floor = 4
  Grid = {3, 4}
  LongGrid = {3, 4, 5, 6}
  Likeness <- AlbumLikeness
  Same = 9
  SynthIndex <- SynthIdx
  SynthTruth <- SynthLabels
  ReportNames = {n1}
  NoIndex = NoIndex
  NoReport = NoReport
  Untuned = Untuned
  MaxRuns = 1
  MaxTunings = 2
CHECK_DEADLOCK FALSE
INVARIANTS
  EditsCaught
