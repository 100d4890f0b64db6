CONSTANTS
  Paths = {1, 2}
  MaxVersions = 2
  SizeOf <- MCSizeOf
  TicksPerSecond = 2
  Debounce = 2
  WriterGap = 1
  LastWrite = 2
  MaxTime = 5
  MaxCrashes = 0
  MaxRaises = 0
  LogMayCorrupt = FALSE
SPECIFICATION Spec
INVARIANT
  NeverMidWrite
