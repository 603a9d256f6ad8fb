CONSTANTS
  p0 = p0
  p1 = p1
  none = none
  Cpus = {p0, p1}
  Boot = p0
  NoCpu = none
  Code <- MCCode
  Starts <- MCStarts
  CountLen = 2
  Room = 16
  Width = 32
  MaxTu = 5
  MaxLen = 5
  MaxEx = 3
SPECIFICATION Spec
INVARIANTS
  CodeFound
  EntryLands
  FaultFixed
PROPERTIES
  PassesAgree
CHECK_DEADLOCK FALSE
