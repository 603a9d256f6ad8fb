CONSTANTS
  Cpus = {p1, p2}
  NoCpu = NoCpu
  TcEnd = 2
  EdgeEnd = 3
  MaxChunk = 4
  ChunkBytes = 6
  Slack = 2
  Bases <- MCBases
  Sizes <- MCSizes
SPECIFICATION Spec
SYMMETRY CpuSymmetry
INVARIANTS
  BlocksDisjoint
  BlocksInPool
  PoolOfEveryByte
CHECK_DEADLOCK FALSE
