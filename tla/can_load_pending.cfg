CONSTANTS
  TXB_NUM = 3
  RxBufs = {0}
  Faults = {}
  MaxSend = 3
  MaxRecv = 0
  QSize = 4
  CanId <- MCCanId
  OtherIrqs = FALSE
  Ops = {"send"}
  AckedBufs = {}
SPECIFICATION Spec
CHECK_DEADLOCK FALSE
INVARIANT NoLoadWhilePending
