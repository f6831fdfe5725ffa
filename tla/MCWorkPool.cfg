CONSTANTS
  Start = 2
  Total = 4
  Workers = {1, 2}
  Counts = {1, 2, 3}
  MaxChunks = 5
SPECIFICATION Spec
INVARIANTS NoWorkLost NoDoubleAssign SavedSound
PROPERTY PrefixMonotone
