\* One run in which one copy to the raw directory fails.
SPECIFICATION Spec
CONSTANTS
  Plan <- MCPlan
  SkipBuild = TRUE
  MaxRuns = 1
  MaxFaults = 1
INVARIANTS OnlyPassedPublished
