CONSTANTS
  Paths = {1}
  MaxVersions = 1
  SizeOf <- MCSizeOf
  TicksPerSecond = 1
  Debounce = 1
  WriterGap = 0
  LastWrite = 0
  MaxTime = 1
  MaxCrashes = 0
  MaxRaises = 1
  LogMayCorrupt = FALSE
SPECIFICATION Spec
INVARIANT
  NoInputMeansFailed
