\* Deadlock is not checked: every part ends, by an end of its own or at a bound.
SPECIFICATION EvidenceSpec
CONSTANTS
  \* Three CPUs, six ordered pairs, none, one or two doublings
  N = 3
  LatencyRounds = 2
  WarmRounds = 1
  FirstBw = 2
  BwCap = 5
  BwSamples = 2
  \* two or three workers on as many CPUs, two attempts
  Cpus = {c0, c1, c2}
  MaxLogical = 3
  Samples = 1
  MaxAttempts = 2
  \* up to three threads, a word that overflows within five doublings
  Word = 90
  First = 2
  Attempts = 5
  MinTime = 4
  Repeats = 2
  IntOps = 4
  FpOps = 2
  CpuIds = {0, 1, 2}
  Paces = {1, 3, 7}
  \* limits within a scan or beyond it, a machine that speeds up or slows down
  Counts <- MCCounts
  Strides <- MCStrides
  Fillers <- MCFillers
  CountLimits = {10, 20, 1000000}
  FootprintLimits = {24, 1000000}
  IndexLimits = {14, 1000000}
  WindowLimits = {30, 50, 1000000}
  Speeds = {70, 105, 140}
  MaxDisturbed = 1
  \* pairs of runs that differ in one report
  Runs <- MCRuns
  Selections <- MCSelections
  \* five runs, one crash
  Reports <- MCReports
  Baseline = 2
  WarnPct = 15
  FailPct = 30
  MaxRuns = 5
  MaxCrashes = 1
  Archives <- MCArchives
  Fresh <- MCFresh
  \* one test of either category, two rounds
  Memory <- MCMemory
  Cpu <- MCCpu
  Lenient = {"inter_core"}
  MaxRounds = 2
  \* two sensors and a policy for two places, a counter that wraps within two ticks
  Sensors = {1, 2}
  Cap = 2
  Rediscover = 2
  Life <- MCLife
  Delay = 1
  Period = 4
  Burns = {1, 3}
  MaxTime = 2
  MaxChanges <- MCChanges
  \* memory for none, one or two MiB, which three threads cannot share evenly, with or without cache blocks and the GPU
  Threads = 3
  Mib = 4
  CacheCost = 1
  GpuCost = 2
  Modes <- MCModes
  Levels = {16, 24, 31}
INVARIANTS PoolIsSound KneeIsItsCause BetterRowsScoreNoLess RestoredIsOneArchive PassIsThisRounds SampleIsOfNow
PROPERTIES EnginesEnd PublishedIsSound VerdictMatchesRuns BudgetIsHalf
CHECK_DEADLOCK FALSE
