SPECIFICATION FairSpec
CONSTANTS
  Scenarios <- MCScenarios
  FirstYield = 0
  MaxSaves = 1
  MaxResieves = 2
INVARIANTS
  SievedOnce
  NothingLost
  CheckpointHolds
PROPERTIES
  LoopsEnd
CHECK_DEADLOCK FALSE
