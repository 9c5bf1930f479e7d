SPECIFICATION WtoFairSpec
CONSTANTS
  Labels <- MCLabels
  EntryLabel = 0
  NoCycle = NoCycle
  Absent = Absent
  DFN_INF = 1000
  CfgGraphs <- SmallGraphs
INVARIANTS
  EachReachableLabelOnce
  PartitionsAreOrdered
  CyclesAreLoops
  PopsTheVisitedVertex
  NestingMatchesPartitions
PROPERTY BuilderTerminates
