SPECIFICATION Spec
CONSTANTS
  alice = alice
  bob = bob
  long = long
  short = short
  None = none
  People <- MCPeople
  Files <- MCFiles
  Owners <- MCOwners
  Size <- MCSize
  Quota = 4
  Budget <- MCBudget
  OFFERS = 2
  CANCELS = 1
  BYES = 1
  TROUBLE = 1
  QUIETS = 1
  UPSETS = 2
INVARIANTS
  NoFault
  NothingCutShort
  PartialIsPrefix
CONSTRAINT Followed
CHECK_DEADLOCK FALSE
