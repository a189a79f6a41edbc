SPECIFICATION ASpec
CONSTANTS
  Modulus = 32
  Unlimited = 100
  Mss = 2
  SendBuffer = 8
  ReceiveBuffer = 5
  MaxReassembly = 3
  MaxTransmissions = 2
  MaxWindow = 10
  MaxQueue = 5
  MaxChunks = 3
  StreamEnd = 4
INVARIANTS FlushAgrees DrainAgrees AckAgrees CodecAgrees
CHECK_DEADLOCK FALSE
