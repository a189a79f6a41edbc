SPECIFICATION FairSpec
CONSTANTS
  client = client
  server = server
  Side = {client, server}
  Opener = client
  Isn <- Reconnecting
  WriteLimit <- ServerOnly
  ReadSizes = {2}
  MaxLosses = 0
  MaxCopies = 0
  MaxCrashes = 0
  Closing = {}
  Aborting = {server}
  EarlyTimeouts = FALSE
  PromptReaders = TRUE
  Modulus = 32
  Unlimited = 100
  Mss = 1
  SendBuffer = 2
  ReceiveBuffer = 2
  MaxReassembly = 2
  MaxTransmissions = 3
  MaxWindow = 10
PROPERTIES AbortReachesPeer ResetOnlyOrphans
CHECK_DEADLOCK FALSE
