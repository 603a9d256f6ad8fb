CONSTANTS
  Size = 4
  Targets <- MCTargets
  Tc <- MCTc
  Null = null
  Trees = {"jumptable2", "tc_tree"}
  Elems <- Blocks
  TreeOf <- MCTreeOf
  Key <- MCKey
  Nil = nil
  Limit = 8
  e1 = e1
  e2 = e2
  e3 = e3
  e4 = e4
  e5 = e5
SPECIFICATION KindSpec
VIEW View
INVARIANTS
  TypeOK
  WellFormed
  LookupsAgree
PROPERTIES
  LandsOnTarget
  ActsAsCache
  ImplementsIndex
  ImplementsLists
  ImplementsTable
