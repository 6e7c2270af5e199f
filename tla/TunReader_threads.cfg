SPECIFICATION ReaderFairSpec
CONSTANTS
  r1 = r1
  r2 = r2
  r3 = r3
  Readers <- ThreeReaders
  MaxPkts = 3
CHECK_DEADLOCK FALSE
INVARIANTS
  PostedInOrder
  OnlyReadContent
PROPERTIES
  DeviceServed
