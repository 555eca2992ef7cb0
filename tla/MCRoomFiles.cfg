SPECIFICATION Spec
CONSTANTS
  host = host
  member = member
  other = other
  long = long
  short = short
  None = none
  People <- MCPeople
  Host = host
  Links <- MCLinks
  Files <- MCFiles
  Author <- MCAuthor
  Size <- MCSize
  Quota = 2
  Budget <- MCBudget
  GETS = 3
  STALLS = 1
  TROUBLE = 1
  BACKS = 1
INVARIANTS
  WaitersAnswered
  PartialIsPrefix
  QuotaHeld
CHECK_DEADLOCK FALSE
