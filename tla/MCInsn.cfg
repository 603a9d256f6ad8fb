SPECIFICATION PartSpec
CONSTANTS
  Bodies <- Kernel
  Ends <- Terminating
  MaxBody = 2
  MaxCount = 2
  MinCompared = 1
  Prefixes = {102, 103, 243, 46}
  Rms = {0, 1, 2, 3, 4, 5, 6, 7}
  Bases = {0, 4, 5}
  Indices = {0, 4, 5}
  Scales = {0, 1, 2, 3}
INVARIANTS Transparent ShadowRight LengthRight AddressRight
CHECK_DEADLOCK FALSE
