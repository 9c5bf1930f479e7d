SPECIFICATION CfgSpec
CONSTANTS
  Inputs <- LoopInputs
  MaxCallStackFrames = 4
  IntMax = 9
INVARIANT GraphFollowsCalls
