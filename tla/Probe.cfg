CONSTANTS
  num_probes = 2
  MaxHops = 3
  Dist = 2
  MaxForeign = 1
  UINT16 = 6
  Echo = 5
  He = 4
  Ll = 5
  O = 5
SPECIFICATION FairSpec
INVARIANT TypeOK
INVARIANT MatchedUntilTimeout
INVARIANT StopsAtDestination
INVARIANT PacketVerifies
PROPERTY Ends
CHECK_DEADLOCK FALSE
