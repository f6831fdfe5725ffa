CONSTANTS
    Limbs = 3
    LimbBits = 2
    Moduli = {1, 2, 13, 35, 59, 63}
    OddPrimes = {3, 5, 7, 11, 13, 17, 41, 97}
    Candidates = {0, 1, 2, 3, 4, 9, 37, 41, 1681, 1763, 1847, 1849, 1517, 2021}
    Composites = {1081, 1649, 2021, 3599}
    FBBound = 40
    WindowBound = 160
    FBSize = 100
    WindowStart = 40
    DeltaMax = 3
    ByteValues = 2
    BlockItems = 3
    WordBits = 6
    HostColBits = 4
    Lanes = 2
    PatternRows = 2
SPECIFICATION Spec
CHECK_DEADLOCK FALSE
INVARIANTS
    IntegersExact
    NumberTheoryExact
    PolynomialsExact
    WalkExact
    RangesDisjoint
    ProductsExact
