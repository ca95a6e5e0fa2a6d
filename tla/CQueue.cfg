CONSTANTS
  MAX_MSG = 3
  Msg = {m1, m2, m3}
  Null = Null
SPECIFICATION Spec
INVARIANT TypeOK
INVARIANT FreesExactlyTheQueued
PROPERTY ImplementsFifo
