CONSTANTS
  Cpus = {p1, p2}
  Threads = {t1, t2}
  Targets = {a, b}
  MaxDepth = 2
  NoThread = NoThread
  NoTarget = NoTarget
  Ds = Ds
SPECIFICATION Spec
SYMMETRY Symmetry
INVARIANTS
  OwnTarget
CHECK_DEADLOCK FALSE
