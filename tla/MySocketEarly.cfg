CONSTANTS
  a = a
  b = b
  m1 = m1
  m2 = m2
  m3 = m3
  End <- Ends
  Peer <- PeerOf
  Msg <- Msgs
  Program <- CloseEarly
  MAX_MSG = 1
  SockBuf = 1
  SpuriousWakeups = FALSE
  SleepSuffices = FALSE
SPECIFICATION FairSpec
INVARIANT DeadHoldNothingWanted
PROPERTY ImplementsChannel
PROPERTY CloseReturns
