SPECIFICATION SystemFairSpec
CONSTANTS
  Objects = {o1, o2}
  Pids = {p1, p2}
  NoPid = NoPid
  Servers = {v1, v2}
CHECK_DEADLOCK FALSE
INVARIANTS
  OneReaper
  StoppedTogether
PROPERTIES
  ForgottenEnd
  Restarted
