SPECIFICATION FairSpec
CONSTANTS
  NumWorkers = 1
  InitialCount = 1
  PoolTotal = 1
  ChunkSizes = {1}
  Target = 3
  RingCap = 1
  Coalesce = 1
  ChannelCap = 1
  MaxChunks = 4
  Budgets <- Ends
PROPERTIES
  RunEnds
  AllSieved
CHECK_DEADLOCK FALSE
