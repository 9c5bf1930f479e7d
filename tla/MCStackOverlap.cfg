SPECIFICATION Spec
CONSTANTS
  StackSize = 16
  SubprogramSize = 8
  Word = 4
  States = {1, 2}
  Workloads <- MixedWorkloads
INVARIANTS
  OverlapsAreFound
CHECK_DEADLOCK FALSE
