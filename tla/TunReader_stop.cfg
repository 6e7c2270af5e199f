SPECIFICATION ReaderSpec
CONSTANTS
  r1 = r1
  r2 = r2
  r3 = r3
  Readers <- TwoReaders
  MaxPkts = 1
CHECK_DEADLOCK FALSE
INVARIANTS
  OneSelectLoop
