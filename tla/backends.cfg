CONSTANTS
  Names = {a, b, c}
  NoName = none
  MaxBackends = 4
  Providers = {"ollama", "anthropic", "openai"}
  MaxSources = 3
  MaxTurns = 1
SPECIFICATION MCSpec
INVARIANTS
  FirstUsable
  TreeTellsWhy
  FailClosed
  PairAgrees
\* A call returns or raises, and that is its end.
CHECK_DEADLOCK FALSE
