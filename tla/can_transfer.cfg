CONSTANTS
  TXB_NUM = 2
  RxBufs = {0}
  Faults = {}
  MaxSend = 3
  MaxRecv = 2
  QSize = 2
  CanId <- MCCanId
  OtherIrqs = TRUE
  Ops = {"send", "recv"}
  AckedBufs = {}
SPECIFICATION FairSpec
CHECK_DEADLOCK FALSE
INVARIANTS
  TypeOK
  EveryBufferArmed
  QueuedFrameInCycle
  TokensCoverFrames
  ReceivedInOrder
  OneInterruptInFlight
PROPERTIES
  InterruptAcknowledged
  QueuedFrameFetched
