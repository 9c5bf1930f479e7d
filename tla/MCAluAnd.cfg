SPECIFICATION Spec
CONSTANTS
  W64 = 8
  W32 = 4
  W16 = 2
  NumVars = 4
  AssertsOn = FALSE
  BigEndian = FALSE
  MaxSetup = 1
  Setup <- MCKnown
  Program <- MCAnds
  Samples <- MCSamples
VIEW Observed
PROPERTIES
  AllStepsAreSound
CHECK_DEADLOCK FALSE
