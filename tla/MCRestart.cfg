SPECIFICATION FairSpec
CONSTANTS
  client = client
  server = server
  Side = {client, server}
  Opener = client
  Isn <- Reconnecting
  WriteLimit <- OneWay1
  ReadSizes = {2}
  MaxLosses = 1
  MaxCopies = 0
  MaxCrashes = 1
  Closing = {}
  Aborting = {}
  EarlyTimeouts = FALSE
  PromptReaders = TRUE
  Modulus = 32
  Unlimited = 100
  Mss = 1
  SendBuffer = 1
  ReceiveBuffer = 1
  MaxReassembly = 2
  MaxTransmissions = 3
  MaxWindow = 10
PROPERTIES RestartReconnects
CHECK_DEADLOCK FALSE
