SPECIFICATION FairSpec
CONSTANTS
  client = client
  server = server
  Side = {client, server}
  Opener = client
  Isn <- OneConnection
  WriteLimit <- OneWay2
  ReadSizes = {2}
  MaxLosses = 1
  MaxCopies = 0
  MaxCrashes = 0
  Closing = {client, server}
  Aborting = {}
  EarlyTimeouts = FALSE
  PromptReaders = FALSE
  Modulus = 32
  Unlimited = 100
  Mss = 1
  SendBuffer = 2
  ReceiveBuffer = 2
  MaxReassembly = 2
  MaxTransmissions = 2
  MaxWindow = 10
INVARIANTS ClosingAgrees WindowsNest NothingSendableWaits
PROPERTIES ImplementsByteStream CloseFinishes
CHECK_DEADLOCK FALSE
