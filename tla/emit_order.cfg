CONSTANTS
  Bentos = {b1}
  Heart = heart
  Relays = 2
  MaxRestarts = 0
SPECIFICATION Spec
INVARIANT
  LastEventIsState
