SPECIFICATION Spec
CONSTANTS
  p1 = p1  p2 = p2  p3 = p3
  Photos = {p1, p2}
  Outcomes = {"done", "failed", "pending"}
  NoPhoto = NoPhoto
INVARIANTS
  ReadyMeansDrained
