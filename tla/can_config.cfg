CONSTANTS
  Calls <- AllCalls
  Requests <- AllMasks
  Bauds = {125000, 500000}
  MaxCalls = 4
SPECIFICATION ConfigFairSpec
INVARIANTS
  TypeOK
  ConfigTypeOK
  TimingInConfigMode
PROPERTIES
  CallsReturn
  LastCallSettles
