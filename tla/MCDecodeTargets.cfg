SPECIFICATION Spec
CONSTANTS
  Programs <- MCShort
  Prototypes <- MCPrototypes
  Usable <- MCUsable
  ImmBits = 11
  OffsetBits = 7
INVARIANTS
  TargetsAreInstructions
CHECK_DEADLOCK FALSE
