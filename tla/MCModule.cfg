CONSTANTS
  Cpus = 3
  Chunks = 2
  MayFail = {"memory", "start", "restore"}
  t1 = t1
  t2 = t2
  Threads <- MCThreads
  Emitted <- MCEmitted
  MaxFrames = 2
  Calls = {"imm", "mem"}
  OLDKERNEL = TRUE
  Addr = {1, 2, 3, 4}
  MAX_EXTABLE_EIPS = 4
  ChunkLen = 2
  ChunkBases = {10, 20, 30}
SPECIFICATION PartSpec
INVARIANTS
  ShadowBacked
  StopFreesAll
  AreasWhole
  RestoresReturns
  FixupReached
CHECK_DEADLOCK FALSE
