SPECIFICATION Spec
CONSTANTS
  W64 = 4
  W32 = 2
  W16 = 1
  NumVars = 3
  Assignments <- MCAssignments
  Settings <- MCSettings
  Havocs <- MCHavocs
  Csts <- MCCsts
  Queries <- MCQueries
  Box <- MCBox
  MaxUnary <- MCMaxUnary
  MaxBinary = 1
  MaxAfter = 1
VIEW Observed
INVARIANTS
  PotentialIsAModel
  NormalForm
  LeqIsSound
  AnswersAreRight
PROPERTIES
  ZonesAreSound
  UpperBounds
CHECK_DEADLOCK FALSE
