SPECIFICATION Spec
CONSTANTS
  StackSize = 16
  SubprogramSize = 8
  Word = 4
  States = {1, 2}
  Workloads <- CallWorkloads
INVARIANTS
  LoadsBySizeAreNumbers
CHECK_DEADLOCK FALSE
