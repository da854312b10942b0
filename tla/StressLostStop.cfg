\* The mode check boxes stay enabled while a session stops.
SPECIFICATION Spec
CONSTANTS
  CpuModes = {"ram"}
  FirstBoxes = {"ram", "gpu"}
  MaxSessions = 1
  MaxToggles = 1
  MaxFaults = 0
INVARIANTS StopRequestStays
