\* About half of the real ages for the monitor (4, 3 and 8 seconds), three user
\* actions or faults; two refreshes of two queries for the page.  Deadlock is
\* not checked: a closed application and a page at rest stop.
SPECIFICATION BothSpec
CONSTANTS
  SampleLife = 2
  SnapshotLife = 2
  StaleStop = 4
  MaxEvents = 3
  Queries = 2
  MaxRequests = 2
INVARIANTS LoadIsGuarded ReplyMatchesQuery
PROPERTIES PauseIsClean StopsForHeat HelperEnds PageKeepsContract
CHECK_DEADLOCK FALSE
