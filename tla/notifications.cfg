CONSTANTS
  Videos = {v1, v2}
  OwnURL = {v1}
  GlobalURL = TRUE
  Reporters = {r1, r2}
  Serials = {n1, n2}
  Listeners = {l1, l2}
  NoVideo = NoVideo
  Capacity = 1
  Threshold = 2
  MaxTries = 2
  MaxReports = 5
  MaxFollowed = 2
  MaxDeletions = 1
SPECIFICATION Spec
INVARIANTS
  TypeOK
  LogTellsTheAttempts
  OwnURLFirst
  ListenersAreIndependent
  StreamsRepeatNothing
  AlarmPerThreshold
CONSTRAINT Bounded
SYMMETRY Symmetry
CHECK_DEADLOCK FALSE
