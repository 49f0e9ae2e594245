CONSTANTS
  TXB_NUM = 1
  RxBufs = {0}
  Faults = {}
  MaxSend = 1
  MaxRecv = 2
  QSize = 4
  CanId <- MCCanId
  OtherIrqs = FALSE
  Ops = {"send", "recv"}
  AckedBufs = {}
SPECIFICATION Spec
CHECK_DEADLOCK FALSE
INVARIANT NoLostInterrupt
