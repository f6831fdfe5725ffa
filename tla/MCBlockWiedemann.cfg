SPECIFICATION Spec
CONSTANTS
    Matrices <- MCMatrices
    Blocks <- MCBlocks
    Seeds <- MCSeeds
    RandomVector <- MCRandomVector
    BatchSize = 2
    HistoryDepth = 4
    CheckInterval = 2
    StripLimit = 8
    MaxSolutions = 3
    MaxLaunches = 3
    Fills <- MCFills
INVARIANTS
    SequenceRight
    Annihilates
    NullVectors
    ResumeAgrees
