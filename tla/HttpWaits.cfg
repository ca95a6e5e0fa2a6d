CONSTANTS
  CHUNKSIZE = 10
  Content <- Contents
  None = None
SPECIFICATION Spec
CHECK_DEADLOCK FALSE
INVARIANT WaitsOnlyForMore
