SPECIFICATION FairSpec
CONSTANTS
  Programs <- MCPrograms
  QueueDepth = 1
  TokenDepth = 1
INVARIANTS
  VTATypeOK
  FinishAfterStores
  NeverStuck
PROPERTIES
  ExecutesProgram
  ProgramEnds
CHECK_DEADLOCK FALSE
