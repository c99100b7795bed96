CONSTANTS
  Videos = {v1,v2}
  Workers = {w1,w2}
  NoVideo = NoVideo
  QueueMaxSize = 1
  MaxTranscodeAttempts = 2
  KeepOriginal = FALSE
  MaxUploads = 1
  MaxCrashes = 1
  MaxEnds = 1
  Orderly = TRUE
  Quick = {v1,v2}
SPECIFICATION FairMainSpec
INVARIANTS
  CompletedIsMovingOn
  ToldAgrees
  FinalIsAnnounced
  NothingPendsAfterStop
PROPERTIES
  FollowsLifecycle
  RecoveryIsComplete
  ShutdownEnds
CHECK_DEADLOCK FALSE
