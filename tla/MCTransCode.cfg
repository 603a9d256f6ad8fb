CONSTANTS
  Table <- MCTable
  Insns <- MCInsns
  SlotSets <- MCSlotSets
SPECIFICATION Spec
INVARIANTS
  OneRule
  AtomicSearch
PROPERTIES
  MovedFirst
  RunsAsNative
