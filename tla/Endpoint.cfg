CONSTANTS
  PublicKey = {k}
  Incoming <- MCIncoming
  MaxConnections = 2
  MaxPerPeer = 1
  BatchLimit = 2
  MaxArrivals = 2
  MaxCreated = 2
  MaxFailures = 1
  MaxCancels = 1

SPECIFICATION FairSpec
INVARIANTS
  NoOrphan
  OnePeerOneBudget
PROPERTY EveryDatagramHandled
