SPECIFICATION CfgFairSpec
CONSTANTS
  Inputs <- MCInputs
  MaxCallStackFrames = 3
  IntMax = 9
INVARIANTS
  CfgTypeOK
  EdgesMirrored
  FramesAreBounded
  EntryAndExitAreEnds
  GraphFollowsCalls
  DeepCallsAreRejected
  ForwardCallsAreInlined
  UncountedLoopsAreInner
PROPERTIES
  CountersKeepPaths
  ConstructionEnds
