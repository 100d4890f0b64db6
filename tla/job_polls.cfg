CONSTANTS
  Jobs = {j1, j2}
  Clients = {c}
  MaxErrors = 1
  MaxRestarts = 1
SPECIFICATION FairSpec
INVARIANTS
  AcceptedIsKnown
  DoneHasArtifact
  ErrorIsItsOwn
PROPERTIES
  PollNeverGoesBack
  JobEnds
CHECK_DEADLOCK FALSE
