SPECIFICATION Spec
CONSTANTS
  Messages <- SomeMessages
  MaxMessages = 4
  MaxChunk = 4
  RestLen = 3
  kMaxCacheSize = 5
CHECK_DEADLOCK FALSE
INVARIANTS
  MessagesIntact
  ArrivedHandedOn
  RejectsOnlyHuge
