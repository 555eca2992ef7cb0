SPECIFICATION FairSpec
CONSTANTS
  alice = alice
  bob = bob
  Peers <- MCPeers
  WAITING = 2
  Budget <- MCEverything
CONSTRAINT NotTooMuch
CHECK_DEADLOCK FALSE
INVARIANTS
  TypeOK
  NeverAlone
  MutualAtRest
PROPERTIES
  AgreementCompletes
  HeldWhileAgreed
