SPECIFICATION Spec
CONSTANTS
  Modulus = 32
  Unlimited = 100
  Mss = 1
  SendBuffer = 2
  ReceiveBuffer = 2
  MaxReassembly = 2
  MaxTransmissions = 2
  MaxWindow = 10
  InitialRto = 2
  MinRto = 1
  MaxRto = 3
  MinMargin = 1
  FinWait2Time = 3
  TimeWaitTime = 2
  InitialSeq = 30
  OpenWindow = 2
  MaxInputs = 4
  MaxBytes = 2
INVARIANTS TypeOK SilenceIsBounded PollHasWork
PROPERTIES PollIsExact KarnsRule
CHECK_DEADLOCK FALSE
