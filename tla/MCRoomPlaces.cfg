SPECIFICATION Spec
CONSTANTS
  alice = alice
  bob = bob
  carol = carol
  People <- MCPeople
  Contacts <- Star
  WAITING = 5
  NoInvite = NoInvite
  WINDOW = 8
  MAX_MEMBERS = 2
  Budget <- MCPlaces
SYMMETRY StarSymmetry
CHECK_DEADLOCK FALSE
INVARIANTS
  PlacesHeld
  InvitesAnswered
