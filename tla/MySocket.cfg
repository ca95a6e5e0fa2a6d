CONSTANTS
  a = a
  b = b
  m1 = m1
  m2 = m2
  m3 = m3
  End <- Ends
  Peer <- PeerOf
  Msg <- Msgs
  Program <- BothWays
  MAX_MSG = 1
  SockBuf = 1
  SpuriousWakeups = TRUE
  SleepSuffices = TRUE
SPECIFICATION FairSpec
INVARIANT TypeOK
INVARIANT MutualExclusion
INVARIANT TestStillHolds
INVARIANT NoLostWakeup
PROPERTY ImplementsChannel
PROPERTY AllDelivered
