CONSTANTS
    Jobs <- MCJobs
    FBBound = 60
    SmallUsed = 1
    MidStart = 3
    BigStart = 5
    SB = 8
    NumBlocks = 3
    NumPolys = 4
    Grid = 2
    ParNum = 2
    BucketSize = 1
    MaxPerBlock = 2
    Threshold = 8
    SatMax = 8
    FactorSlots = 2
    DenseSlots = 4
    DenseFactors = 5
SPECIFICATION Spec
CHECK_DEADLOCK FALSE
INVARIANTS EntriesExact FactorsExact BucketsBounded
