SPECIFICATION FairSpec
CONSTANTS
  s1 = s1
  s2 = s2
  Sessions <- TwoSessions
  Begin = 1
  End = 2
  ConfigIpOk = TRUE
  Garbage = {2}
  Dests = {2}
  TunQCap = 1
  TaskCap = 1
INVARIANTS
  RouteOwner
  OnlyOwnPackets
  AllocatedIsHeld
  RefusedOnlyWhenUsedUp
PROPERTIES
  PoolSpec
  RequestAnswered
