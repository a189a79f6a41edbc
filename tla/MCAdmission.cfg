SPECIFICATION Spec
CONSTANTS
  p = p
  q = q
  Peer = {p, q}
  Classifiers <- ForP
  Service = {1, 2}
  RemotePort = {1}
  FirstPort = 2
  LastPort = 3
  MaxConnections = 3
  MaxPerPeer = 2
  Tries = 2
  IdSpace = 8
  MaxCreated = 3
  MaxStacks = 1
  MaxOutbound = 0
  MaxBytes = 0
  MaxMarkers = 0
INVARIANTS TypeOK TableConsistent LimitsHold ReservedSlotsFree PortIsFound EveryoneReachable AcceptedOnce
CHECK_DEADLOCK FALSE
