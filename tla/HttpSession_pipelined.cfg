SPECIFICATION Spec
CONSTANTS
  Requests <- TwoFiles
  MaxRequests = 2
  MaxFrames = 0
  KernelCap = 1
  Pipelining = TRUE
CHECK_DEADLOCK FALSE
INVARIANT
  SenderDriven
