CONSTANTS
  Bentos = {b1}
  Heart = heart
  Relays = 2
  MaxRestarts = 1
SPECIFICATION FairSpec
INVARIANTS
  PublishedAtMostOnce
  AcceptedIsPublished
  FramedWithItsSchema
  OvertakenWasGivenUp
PROPERTIES
  EmitNeverBlocks
