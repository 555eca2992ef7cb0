SPECIFICATION Spec
CONSTANTS
  alice = alice
  bob = bob
  carol = carol
  People <- MCPeople
  Contacts <- Mesh
  WAITING = 1
  NoInvite = NoInvite
  WINDOW = 8
  MAX_MEMBERS = 3
  Budget <- MCTalk
SYMMETRY Symmetry
CONSTRAINT OneThing
CHECK_DEADLOCK FALSE
INVARIANTS
  ShownOnce
  HeardAtRest
  ListedAreIn
