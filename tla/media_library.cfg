CONSTANTS
  Videos = {v1}
  Callers = {c1,c2,c3}
  Nobody = Nobody
  MinDim <- SmallSide
  KeepOriginal = FALSE
  MaxInits = 2
  MaxTokens = 2
  MaxFaults = 1
  Orderly = TRUE
SPECIFICATION Spec
INVARIANTS
  TypeOK
  ReadyIsOnDisk
  DeletionIsFinal
  GrantedTokenWorks
  PlayedWasReady
SYMMETRY CallerSymmetry
CHECK_DEADLOCK FALSE
