SPECIFICATION Spec
CONSTANTS
  N = 1649
  FactorBase <- MCFactorBase
  Scenarios <- MCScenarios
INVARIANTS
  RelationsHold
  
  
