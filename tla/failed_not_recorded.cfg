CONSTANTS
  Videos = {v1,v2}
  Workers = {w1}
  NoVideo = NoVideo
  QueueMaxSize = 1
  MaxTranscodeAttempts = 2
  KeepOriginal = FALSE
  MaxUploads = 1
  MaxCrashes = 0
  Orderly = TRUE
  Quick = {v1,v2}
SPECIFICATION Spec
INVARIANT FailedIsRecorded
CHECK_DEADLOCK FALSE
