CONSTANTS
  Videos = {v1}
  Workers = {w1}
  NoVideo = NoVideo
  QueueMaxSize = 1
  MaxTranscodeAttempts = 3
  KeepOriginal = FALSE
  MaxUploads = 1
  MaxCrashes = 0
  Orderly = TRUE
  Quick = {v1}
SPECIFICATION HistorySpec
INVARIANT TriedBeforeFailed
CHECK_DEADLOCK FALSE
