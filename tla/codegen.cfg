CONSTANTS
  Lexicon <- MCLexicon
  Iterations <- MCIterations
  Histories <- MCHistories
  MaxNumber = 23
  Drafts <- MCDrafts
SPECIFICATION Spec
INVARIANTS
  DriftMeansStale
  CratePassesItsTests
  ReadsWhatItKnows
  RelayKeepsMessage
  HarnessParity
  BentoStaysActive
