CONSTANTS
  TXB_NUM = 3
  RxBufs = {0}
  Faults = {"MERR", "WAK"}
  MaxSend = 3
  MaxRecv = 1
  QSize = 2
  CanId <- MCCanId
  OtherIrqs = FALSE
  Ops = {"sendto", "abort", "recv_rxb"}
  AckedBufs = {0, 1}
SPECIFICATION Spec
CHECK_DEADLOCK FALSE
INVARIANTS
  PendingIsCached
