CONSTANTS
  Names = {1}
  MaxDrops = 1
  MaxRestarts = 0
SPECIFICATION OldBusSpec
INVARIANT
  WorkOutlivesBus
