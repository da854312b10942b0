\* Two workers; one archive is kept; nothing fails.
SPECIFICATION Spec
CONSTANTS
  Workers = {w1, w2}
  Windows = {v1}
  Old = {}
  Legacy = {}
  Keep = 1
  MaxFaults = 0
  NoProcess = NoProcess
INVARIANTS WorkerKeepsArchive
