SPECIFICATION FairSpec
CONSTANTS
  client = client
  server = server
  Side = {client, server}
  Opener = client
  Isn <- OneConnection
  WriteLimit <- OneWay2
  ReadSizes = {2}
  MaxLosses = 2
  MaxCopies = 1
  MaxCrashes = 0
  Closing = {client}
  Aborting = {}
  EarlyTimeouts = TRUE
  PromptReaders = TRUE
  Modulus = 32
  Unlimited = 100
  Mss = 1
  SendBuffer = 2
  ReceiveBuffer = 1
  MaxReassembly = 2
  MaxTransmissions = 4
  MaxWindow = 10
PROPERTIES Delivered CloseSendsFin
CHECK_DEADLOCK FALSE
