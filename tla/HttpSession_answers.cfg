SPECIFICATION Spec
CONSTANTS
  Requests <- EveryRequest
  MaxRequests = 3
  MaxFrames = 2
  KernelCap = 2
  Pipelining = FALSE
CHECK_DEADLOCK FALSE
INVARIANTS
  ResponsesInOrder
  CloseAfterLast
  ClosedAsAnnounced
PROPERTY
  TransferCompletes
