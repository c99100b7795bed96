CONSTANTS
  Videos = {v1}
  Callers = {c1}
  Nobody = Nobody
  MinDim <- SmallSide
  KeepOriginal = FALSE
  MaxInits = 1
  MaxTokens = 2
  MaxFaults = 0
  Orderly = TRUE
SPECIFICATION Spec
PROPERTY ReprocessRestarts
CHECK_DEADLOCK FALSE
