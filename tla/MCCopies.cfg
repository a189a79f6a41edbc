SPECIFICATION Spec
CONSTANTS
  client = client
  server = server
  Side = {client, server}
  Opener = client
  Isn <- OneConnection
  WriteLimit <- OneWay4
  ReadSizes = {2}
  MaxLosses = 1
  MaxCopies = 1
  MaxCrashes = 0
  Closing = {}
  Aborting = {}
  EarlyTimeouts = FALSE
  PromptReaders = FALSE
  Modulus = 32
  Unlimited = 100
  Mss = 2
  SendBuffer = 4
  ReceiveBuffer = 2
  MaxReassembly = 2
  MaxTransmissions = 2
  MaxWindow = 10
INVARIANTS TypeOK TransmissionBudget ByteLedger FlightIsTiled BufferBound
PROPERTIES ImplementsByteStream HeadOfLineAccepted GivesUpOnlyOnLoss
CHECK_DEADLOCK FALSE
