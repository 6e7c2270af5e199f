SPECIFICATION MsgSpec
CONSTANTS
  FrameKinds <- SomeFrames
  MaxFrames = 3
  MaxChunk = 16
  MaxWsPacket = 10
CHECK_DEADLOCK FALSE
INVARIANTS
  OnlyWholeMessages
