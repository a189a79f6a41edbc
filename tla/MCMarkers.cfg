SPECIFICATION Spec
CONSTANTS
  p = p
  q = q
  Peer = {p, q}
  Classifiers <- ForNone
  Service = {1}
  RemotePort = {1}
  FirstPort = 2
  LastPort = 2
  MaxConnections = 2
  MaxPerPeer = 2
  Tries = 1
  IdSpace = 8
  MaxCreated = 2
  MaxStacks = 2
  MaxOutbound = 2
  MaxBytes = 1
  MaxMarkers = 1
INVARIANTS ResetIsLast
PROPERTIES AbortSparesOthers MarkersSettle
CHECK_DEADLOCK FALSE
