SPECIFICATION RunSpec
CONSTANTS
  Labels <- MCLabels
  EntryLabel = 0
  ExitLabel = 7
  NoCycle = NoCycle
  Absent = Absent
  DFN_INF = 1000
  CfgGraphs <- InnerGraphs
  Programs <- InnerPrograms
  Instructions <- MCInstructions
  D <- MCD
  Bottom <- MCBottom
  EntryInv <- MCEntryInv
  LeqD <- MCLeq
  JoinD <- MCJoin
  MeetD <- MCMeet
  WidenD <- MCWiden
  NarrowD <- MCNarrow
  ConstantLimits <- MCConstantLimits
  TransformD <- MCTransform
  CheckD <- MCCheck
  IsCounter <- MCIsCounter
  InitCounters <- MCInitCounters
  LoopCountUb <- MCLoopCountUb
  DescendingIterations = 2
  Values <- MCValues
  EntryValues <- MCEntryValues
  InD <- MCIn
  Exec <- MCExec
  Safe <- MCSafe
  Count <- MCCount
INVARIANT VerifiedProgramsTerminate
