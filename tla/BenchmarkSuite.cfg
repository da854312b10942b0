\* Two runs one after the other with two faults, every cancel, close, signal,
\* failed copy and crash of the window among them.
SPECIFICATION FairSpec
CONSTANTS
  Plan <- MCPlan
  SkipBuild = FALSE
  MaxRuns = 2
  MaxFaults = 2
INVARIANTS ShownIsArchived SuiteIsSound InterruptedStartsNothing NoEngineLeft
PROPERTIES CloseEnds
