CONSTANTS
    N = 1649
    FactorBase <- MCFactorBase
    LocalBuf = 4
    MinMerges = 2
    CharCols = 1
    RefineRounds = 8
    Inputs <- MCInputs
    Configs <- MCConfigs
    KMax = 4
    MaxWeight = 5
    MaxPasses = 100
    MaxRounds = 3
    MaxSolutions = 2
    Excess = 0
    MinRows = 2
SPECIFICATION Spec
INVARIANTS RowsHold ReductionExact SquaresAgree FactorsRight
