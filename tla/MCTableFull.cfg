SPECIFICATION Spec
CONSTANTS
  client = client
  server = server
  Side = {client, server}
  Opener = client
  Isn <- OneConnection
  WriteLimit <- OneWay3
  ReadSizes = {2}
  MaxLosses = 1
  MaxCopies = 0
  MaxCrashes = 0
  Closing = {client}
  Aborting = {}
  EarlyTimeouts = FALSE
  PromptReaders = TRUE
  Modulus = 32
  Unlimited = 100
  Mss = 1
  SendBuffer = 3
  ReceiveBuffer = 3
  MaxReassembly = 1
  MaxTransmissions = 3
  MaxWindow = 10
PROPERTIES GivesUpOnlyOnLoss
CHECK_DEADLOCK FALSE
