CONSTANTS
  People = {p1, p2}
  Requests = {q1, q2}
  Nobody = Nobody
  GrantSets <- OneGrant
  MaxUsers = 2
  MaxFaults = 0
SPECIFICATION FairSpec
PROPERTIES
  RoleUpdateAnswers
CHECK_DEADLOCK FALSE
