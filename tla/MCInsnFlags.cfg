SPECIFICATION PartSpec
CONSTANTS
  Bodies <- Conditions
  Ends <- Terminating
  MaxBody = 2
  MaxCount = 2
  MinCompared = 1
  Prefixes = {}
  Rms = {0}
  Bases = {0}
  Indices = {4}
  Scales = {0}
INVARIANT Transparent
CHECK_DEADLOCK FALSE
