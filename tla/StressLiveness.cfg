\* One session, the same switches and faults, under the fairness of FairSpec.
SPECIFICATION FairSpec
CONSTANTS
  CpuModes = {"ram"}
  FirstBoxes = {"ram", "gpu"}
  MaxSessions = 1
  MaxToggles = 2
  MaxFaults = 1
PROPERTIES StopEnds LoadStops ErrorEndsLoad LoadConverges
