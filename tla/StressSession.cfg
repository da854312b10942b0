\* Two sessions one after the other: every interleaving of page, supervisor and
\* children with two mode switches and one fault.
SPECIFICATION Spec
CONSTANTS
  CpuModes = {"ram"}
  FirstBoxes = {"ram", "gpu"}
  MaxSessions = 2
  MaxToggles = 2
  MaxFaults = 1
INVARIANTS LoadFollowsModes NoLineOfOldGpu SessionIsSound FailureIsShown
PROPERTIES ContractHolds
