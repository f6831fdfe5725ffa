SPECIFICATION Spec
CONSTANTS
  MaxGen = 4
  MaxFaults = 4
INVARIANTS NeverOlder PowerSafe
CHECK_DEADLOCK FALSE
