SPECIFICATION TapSpec
CONSTANTS
  N = 2
  CoalesceCount = 2
  MaxItems = 2
  MaxControl = 1
  MaxAssigns = 3
  MaxFollowed = 2
INVARIANT
  FrameAtomic
