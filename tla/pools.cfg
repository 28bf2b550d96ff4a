\* Two clients and three prefixes for two seats: captures that claim, evict and
\* create at once, calls that fail, an engine that refuses, a runner that
\* closes.
SPECIFICATION FairSpec
CONSTANTS
  k1 = k1  k2 = k2  k3 = k3  r1 = r1  r2 = r2  i1 = i1  i2 = i2
  NoKey = NoKey  NoId = NoId
  MaxPools = 2
  MaxPending = 1
  Budget = 1
  Keys <- ThreeKeys
  Requests <- TwoRequests
  Ids <- TwoIds
INVARIANTS SeatFree RegistryExact ClaimsHeld
PROPERTY RequestEnds
CHECK_DEADLOCK FALSE
