CONSTANTS
  Cpus = {c0, c1}
  Boot = c0
  NoCpu = NoCpu
  Native = Native
  NoSlot = NoSlot
  Unpatched = Unpatched
  Eips <- IdtEips
  Term <- IdtTerm
  Succ <- IdtSucc
  Indirect <- IdtIndirect
  Iret = {5}
  PushEs = {1}
  Handlers = {0, 4}
  FaultHandler = 0
SPECIFICATION FairSpec
INVARIANTS
  PrologueChained
PROPERTIES
  ExitServed
CHECK_DEADLOCK FALSE
