CONSTANTS
  Tasks = {a, b, c}
  Capacity = 2
  Asked = {"invoke", "unserved", "malformed"}
SPECIFICATION HostFairSpec
INVARIANTS
  NoLostWakeup
  StatusTellsWork
PROPERTIES
  KeepsPromise
  RequestAnswered
