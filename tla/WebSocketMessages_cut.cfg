SPECIFICATION MsgSpec
CONSTANTS
  FrameKinds <- SomeFrames
  MaxFrames = 4
  MaxChunk = 16
  MaxWsPacket = 10
CHECK_DEADLOCK FALSE
INVARIANTS
  ArrivedCompleted
  MessagesWhole
  PingsAnswered
