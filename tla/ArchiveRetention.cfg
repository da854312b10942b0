\* Three workers and a window share a folder with one older archive and one of
\* unknown origin; one archive is kept; one crash or failed deletion.
SPECIFICATION Spec
CONSTANTS
  Workers = {w1, w2, w3}
  Windows = {v1}
  Old = {o1}
  Legacy = {l1}
  Keep = 1
  MaxFaults = 1
  NoProcess = NoProcess
INVARIANTS TypeOK NewestKept UnfinishedSurvives OnlyOneDeletes RetentionReached
