CONSTANTS
  MAX_MSG = 1
  Rounds = 3
  Messages = 2
  Null = Null
  Raw = Raw
SPECIFICATION FairSpec
INVARIANT TypeOK
INVARIANT OwnMessages
INVARIANT SoundUnlessEarly
PROPERTY ArrivalsReturned
PROPERTY FailedCallEnds
CHECK_DEADLOCK FALSE
