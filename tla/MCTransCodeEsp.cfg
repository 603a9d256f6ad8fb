CONSTANTS
  Table <- MCPlain
  Insns <- MCEspInsns
  SlotSets <- MCSlotSets
SPECIFICATION Spec
PROPERTY RunsAsNative
