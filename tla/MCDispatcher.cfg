CONSTANTS
  Cpus = {c0, c1}
  Boot = c0
  NoCpu = NoCpu
  Native = Native
  NoSlot = NoSlot
  Unpatched = Unpatched
  Eips <- MCEips
  Term <- MCTerm
  Succ <- MCSucc
  Indirect <- MCIndirect
  Iret = {6}
  PushEs = {1}
  Handlers = {0}
  FaultHandler = 0
SPECIFICATION Spec
VIEW View
INVARIANTS
  LockProtocol
  NoSelfDeadlock
  ChainSound
  CacheSound
  EntriesRecorded
PROPERTIES
  NewBlockFirst
  TranslatedOnce
  RunsAsNative
CHECK_DEADLOCK FALSE
