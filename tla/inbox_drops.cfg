CONSTANTS
  Paths = {1}
  MaxVersions = 2
  SizeOf <- MCSizeOf
  TicksPerSecond = 2
  Debounce = 2
  WriterGap = 1
  LastWrite = 2
  MaxTime = 5
  MaxCrashes = 1
  MaxRaises = 1
  LogMayCorrupt = TRUE
SPECIFICATION FairSpec
INVARIANTS
  RecordedMeansAnswered
  SuppressedMeansCopied
  EventBacked
  OncePerLife
PROPERTIES
  VerdictIsFinal
  KeepsPromise
  EveryDropAnswered
