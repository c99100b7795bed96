CONSTANTS
  People = {p1, p2}
  Requests = {q1, q2}
  Nobody = Nobody
  GrantSets <- SomeGrants
  MaxUsers = 3
  MaxFaults = 1
SPECIFICATION Spec
INVARIANTS
  TypeOK
  GrantsAreBacked
  SessionsKeepTheirOwner
SYMMETRY AccountSymmetry
CHECK_DEADLOCK FALSE
