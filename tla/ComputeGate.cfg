\* Three threads: a partial creation, one unfit thread and one late thread at once.
SPECIFICATION FairSpec
CONSTANTS
  N = 3
  MaxClock = 3
INVARIANTS TypeOK WorkNeedsAll SampleCoversWork NoThreadOutlivesGate
PROPERTIES Returns
