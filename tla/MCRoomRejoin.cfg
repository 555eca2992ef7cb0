SPECIFICATION Spec
CONSTANTS
  alice = alice
  bob = bob
  carol = carol
  People <- MCPeople
  Contacts <- Mesh
  WAITING = 4
  NoInvite = NoInvite
  WINDOW = 8
  MAX_MEMBERS = 3
  Budget <- MCRejoin
SYMMETRY Symmetry
CHECK_DEADLOCK FALSE
INVARIANTS
  RecognisedAtRest
