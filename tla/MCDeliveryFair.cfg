SPECIFICATION FairSpec
CONSTANTS
  b1 = b1
  b2 = b2
  b3 = b3
  Bodies <- TwoBodies
  WINDOW = 8
  MAX_WAITING = 2
  WAITING = 1
  Budget <- MCFair
CHECK_DEADLOCK FALSE
PROPERTIES
  EventuallyReleased
  KeepsPromiseFairly
