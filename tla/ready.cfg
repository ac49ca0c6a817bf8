SPECIFICATION Spec
CONSTANTS
  p1 = p1  p2 = p2  p3 = p3
  Photos = {p1, p2, p3}
  Outcomes = {"done", "pending"}
  NoPhoto = NoPhoto
INVARIANTS
  TypeOK
  DrainedMeansReady
  ReadyMeansDrained
PROPERTIES
  AtomicFinish
