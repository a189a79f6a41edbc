CONSTANTS
  PublicKey = {k}
  Incoming <- MCIncoming
  MaxConnections = 2
  MaxPerPeer = 1
  BatchLimit = 2
  MaxArrivals = 3
  MaxCreated = 2
  MaxFailures = 1
  MaxCancels = 0

SPECIFICATION Spec
INVARIANTS
  ReadsLoseNothing
