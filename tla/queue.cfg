CONSTANTS
  Frame = {f1, f2}
  Torn = Torn
  Size = 4
SPECIFICATION FairSpec
INVARIANTS
  TypeOK
  QueuedFramesWhole
PROPERTIES
  CallsReturn
  ImplementsFifo
