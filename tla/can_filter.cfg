CONSTANTS
  Calls = {"setup", "set"}
  Requests <- Ranges
  Bauds = {125000}
  MaxCalls = 2
SPECIFICATION ConfigSpec
PROPERTY
  HeldFiltersKept
