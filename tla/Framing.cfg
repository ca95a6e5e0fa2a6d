CONSTANTS
  Msg <- Msgs
  UINT8 = 4
  CHUNK = 3
  MAX_MSG_SIZE = 4
  SockBuf = 3
  Calls = 2
SPECIFICATION FairSpec
INVARIANT TypeOK
INVARIANT BufferSuffices
PROPERTY CarriesWholeMessages
PROPERTY AllReturned
CHECK_DEADLOCK FALSE
