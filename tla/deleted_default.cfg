CONSTANTS
  workers = workers
  size = size
  ttl = ttl
  Keys <- ThreeKeys
  Kind <- KindOfKeys
  Requests = {q1, q2}
  NoKey = NoKey
SPECIFICATION Spec
INVARIANTS
  DeletedMeansDefault
CONSTRAINT OneKeyAtATime
SYMMETRY RequestSymmetry
