SPECIFICATION Spec
CONSTANTS
  alice = alice
  bob = bob
  carol = carol
  People <- MCPeople
  Contacts <- MCContacts
  Starts <- MCStarts
  RINGING_LINES = 1
  MAX_OPENING = 1
  WAITING = 1
  Budget <- MCBudget
  Nobody = nobody
  CALLS = 2
  LINES = 2
  TROUBLE = 1
INVARIANTS
  NobodyTalksToNobody
  RingingIsConnected
  ShownInOrder
CHECK_DEADLOCK FALSE
