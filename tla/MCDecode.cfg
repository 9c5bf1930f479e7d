SPECIFICATION Spec
CONSTANTS
  Programs <- MCPrograms
  Prototypes <- MCPrototypes
  Usable <- MCUsable
  ImmBits = 11
  OffsetBits = 7
INVARIANTS
  InstructionsAreValid
  SlotsAreCovered
  TargetsAreCode
  ArgumentsAreCovered
  RoundTrip
CHECK_DEADLOCK FALSE
