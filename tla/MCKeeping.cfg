SPECIFICATION Spec
CONSTANTS
  Absent = absent
  Torn = torn
  Found = found
  Fresh = fresh
  Cap = 1
  Budget <- MCBudget
  TYPED = 3
  SAID = 2
  FAULTS = 1
  LINKS = 2
INVARIANTS
  AlwaysOpens
  OffIsOff
  NothingOfAnObjector
  TheyAreTold
CHECK_DEADLOCK FALSE
