CONSTANTS
  Videos = {v1}
  Workers = {w1,w2}
  NoVideo = NoVideo
  QueueMaxSize = 2
  MaxTranscodeAttempts = 2
  KeepOriginal = FALSE
  MaxUploads = 2
  MaxCrashes = 1
  Orderly = TRUE
  Quick = {}
SPECIFICATION FairSpec
INVARIANTS
  TypeOK
  CompletedIsMovingOn
  ExhaustedBeforeFailed
  ReadyIsPlayable
  FinalIsAnnounced
  CopiesAreBounded
PROPERTIES
  QueuesPerTimeout
  EverythingSettles
CHECK_DEADLOCK FALSE
