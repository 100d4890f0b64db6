CONSTANTS
  Partitions = {1, 2}
  Messages <- MCMessages
  Garbage <- MCGarbage
  MaxRecords = 3
  MaxErrors = 1
  MaxRestarts = 1
SPECIFICATION FairSpec
INVARIANTS
  HandledInOrder
  NothingSkipped
  PayloadIntact
PROPERTIES
  EveryMessageHandled
CHECK_DEADLOCK FALSE
