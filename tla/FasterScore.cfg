\* Deadlock is not checked: two runs are scored and that is all.
SPECIFICATION Spec
CONSTANTS
  Runs <- MCRuns
  Selections <- MCSelections
INVARIANTS FasterScoresNoLess
CHECK_DEADLOCK FALSE
