SPECIFICATION FairSpec
CONSTANTS
  TaskCap = 2
INVARIANTS
  OneDriver
  ConfigWhileOpen
  RequestFirst
  TunnelWhenConfigured
  OnlyPacketsWritten
PROPERTIES
  KeepsTrying
  AttemptEnds
