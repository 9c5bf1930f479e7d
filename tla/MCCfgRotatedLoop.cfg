SPECIFICATION CfgSpec
CONSTANTS
  Inputs <- RotatedInputs
  MaxCallStackFrames = 4
  IntMax = 9
INVARIANT NestedCallsAreInlined
