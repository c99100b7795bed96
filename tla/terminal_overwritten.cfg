CONSTANTS
  Videos = {v1}
  Workers = {w1}
  NoVideo = NoVideo
  QueueMaxSize = 1
  MaxTranscodeAttempts = 2
  KeepOriginal = FALSE
  MaxUploads = 1
  MaxCrashes = 0
  Orderly = TRUE
  Quick = {}
SPECIFICATION Spec
PROPERTY TerminalIsFinal
CHECK_DEADLOCK FALSE
