SPECIFICATION TapSpec
CONSTANTS
  N = 4
  CoalesceCount = 2
  MaxItems = 12
  MaxControl = 1
  MaxAssigns = 3
  MaxFollowed = 3
INVARIANTS
  SlotsApart
  DrainedAtExit
  FramesArrive
PROPERTIES
  IsFifo
