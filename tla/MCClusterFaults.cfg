SPECIFICATION Spec
CONSTANTS
  NumWorkers = 1
  InitialCount = 1
  PoolTotal = 2
  ChunkSizes = {1, 2}
  Target = 4
  RingCap = 1
  Coalesce = 1
  ChannelCap = 1
  MaxChunks = 5
  Budgets <- Faults
INVARIANTS
  TrackersMatchPool
  BookedIsSieved
  
  CheckpointSkipsOnlySieved
