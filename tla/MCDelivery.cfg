SPECIFICATION Spec
CONSTANTS
  b1 = b1
  b2 = b2
  b3 = b3
  Bodies <- ThreeBodies
  WINDOW = 1
  MAX_WAITING = 2
  WAITING = 1
  Budget <- MCEverything
CONSTRAINT NotTooMany
SYMMETRY BodySymmetry
CHECK_DEADLOCK FALSE
INVARIANTS
  TypeOK
  NoSilentLoss
  AckedIsHad
  AtMostOnce
