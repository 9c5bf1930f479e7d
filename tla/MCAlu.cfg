SPECIFICATION Spec
CONSTANTS
  W64 = 8
  W32 = 4
  W16 = 2
  NumVars = 4
  AssertsOn = FALSE
  BigEndian = FALSE
  MaxSetup = 2
  Setup <- MCSetup
  Program <- MCProgram
  Samples <- MCSamples
VIEW Observed
INVARIANTS
  ViewsInRange
PROPERTIES
  OnlySmallestSubThrows
  StepsAreSound
  ConstantsFold
CHECK_DEADLOCK FALSE
