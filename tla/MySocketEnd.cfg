CONSTANTS
  a = a
  b = b
  m1 = m1
  m2 = m2
  m3 = m3
  End <- Ends
  Peer <- PeerOf
  Msg <- Msgs
  Program <- OneTooMany
  MAX_MSG = 1
  SockBuf = 1
  SpuriousWakeups = FALSE
  SleepSuffices = TRUE
SPECIFICATION FairSpec
PROPERTY RecvReturns
CHECK_DEADLOCK FALSE
