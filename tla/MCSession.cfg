SPECIFICATION FairSpec
CONSTANTS
  Names = {"alice", "bob", "carol"}
  Address <- MCAddress
  CHAIN = 2
  OUTBOX = 1
  INBOX = 1
  Budget <- MCBudget
  SAY = 2
  BEATS = 1
  EVENTS = 1
INVARIANTS
  Acquainted
  NeverRefused
  OneKeyOneFrame
  HeardInOrder
PROPERTIES
  HandshakeCompletes
  NobodyWaitsForEver
