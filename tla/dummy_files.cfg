CONSTANTS
  Names = {1, 2}
  MaxDrops = 1
  MaxRestarts = 1
SPECIFICATION MCFairSpec
INVARIANTS
  DrivenOncePerProcess
  NoEventSkipped
PROPERTIES
  EveryFileDriven
  HeartbeatComesBack
  TopicsInTheEnd
