----------------------------- MODULE MCEvidence -----------------------------
(***************************************************************************)
(* How measurements are taken and what is made of them, side by side: the  *)
(* two inter-core engines, the calibration of ComputeMark, the reading of  *)
(* the capacity scans, the score, the regression history, the restored     *)
(* pages and the older command line; the sensors and the memory a load     *)
(* may take.  The parts share no state: each behaviour is one of one part, *)
(* and the variables of the others rest.                                   *)
(***************************************************************************)
EXTENDS WorkerPool, LegacyRun, EvidenceSamples

CONSTANTS
  Cpus, MaxLogical, Samples, MaxAttempts,                               \* ObservedPairs
  Word, First, Attempts, MinTime, Repeats, IntOps, FpOps, CpuIds, Paces,\* ComputeMark
  Counts, Strides, Fillers, CountLimits, FootprintLimits, IndexLimits,  \* ArchitectureEvidence
  WindowLimits, Speeds, MaxDisturbed,
  Runs, Selections,                                                     \* ScoreCard
  Reports, Baseline, WarnPct, FailPct, MaxRuns, MaxCrashes,             \* RegressionHistory
  Archives, Fresh,                                                      \* ResultPages
  Sensors, Cap, Rediscover, Life, Delay, Period, Burns, MaxTime, MaxChanges, \* SensorProvider
  Threads, Mib, CacheCost, GpuCost, Modes, Levels                       \* MemoryBudget

VARIABLES
  part,
  logical, workers, main, gen, shared, late, worker, engine, audit, verdict,
  claim, pace, stages, iterations, attempt, calibrated, samples, marks, status, score,
  scan, machine, speed, changed, records, disturbed,
  selected, run, reports, todo, values, card, error,
  tracker, current, recorded, file, open, exit, runs, crashes,
  phase, at, row, restored, pages, archive,
  kind, policy, past, changes, process, helper, pipe, privileged, catalog, definitions, discovered,
  energy, line, shown,
  free, offered, session, threads, memory, modes, supported, asked, held, decision

Pairs   == INSTANCE ObservedPairs
Mark    == INSTANCE ComputeMark WITH Speeds <- Paces, speed <- pace, todo <- stages, records <- marks
Probe   == INSTANCE ArchitectureEvidence
Score   == INSTANCE ScoreCard
Tracker == INSTANCE RegressionHistory WITH pc <- tracker, history <- recorded
Window  == INSTANCE ResultPages WITH saved <- archive
Sensing == INSTANCE SensorProvider WITH worker <- process
Budget  == INSTANCE MemoryBudget WITH Selections <- Modes, phase <- session

pairsVars   == <<logical, workers, main, gen, shared, late, worker, engine, audit, verdict>>
markVars    == <<claim, pace, stages, iterations, attempt, calibrated, samples, marks, status, score>>
probeVars   == <<scan, machine, speed, changed, records, disturbed>>
scoreVars   == <<selected, run, reports, todo, values, card, error>>
trackerVars == <<tracker, current, recorded, file, open, exit, runs, crashes>>
windowVars  == <<phase, at, row, restored, pages, archive>>
sensingVars == <<kind, policy, past, changes, process, helper, pipe, privileged, catalog, definitions,
                 discovered, energy, line, shown>>
budgetVars  == <<free, offered, session, threads, memory, modes, supported, asked, held, decision>>
evidenceVars ==
  <<part, vars, pairsVars, markVars, probeVars, scoreVars, trackerVars, windowVars,
    legacyVars, sensingVars, budgetVars>>

\* The variables of a part that is not played.
NoPairs ==
  logical = 0 /\ workers = 0 /\ main = "rests" /\ gen = 0 /\ shared = 0 /\ late = 0 /\
  worker = 0 /\ engine = [kept |-> {}] /\ audit = 0 /\ verdict = 0
NoMark ==
  claim = 0 /\ pace = 0 /\ stages = 0 /\ iterations = 0 /\ attempt = 0 /\ calibrated =
  0 /\ samples = 0 /\ marks = 0 /\ status = 0 /\ score = 0
NoProbe ==
  scan = 0 /\ machine = 0 /\ speed = 0 /\ changed = 0 /\ records = 0 /\ disturbed = 0
NoScore ==
  selected = 0 /\ run = 0 /\ reports = 0 /\ todo = 0 /\ values = 0 /\ card = 0 /\
  error = 0
NoTracker ==
  tracker = "rests" /\ current = 0 /\ recorded = 0 /\ file = 0 /\ open = 0 /\ exit = 0 /\
  runs = 0 /\ crashes = 0
NoWindow ==
  phase = 0 /\ at = 0 /\ row = 0 /\ restored = 0 /\ pages = 0 /\ archive = 0

NoLegacy == LegacyInit /\ me = "user"
NoSensing ==
  kind = 0 /\ policy = 0 /\ past = 0 /\ changes = 0 /\ process = 0 /\ helper = 0 /\
  pipe = 0 /\ privileged = 0 /\ catalog = 0 /\ definitions = 0 /\ discovered = 0 /\
  energy = 0 /\ line = 0 /\ shown = 0
NoBudget ==
  free = 0 /\ offered = 0 /\ session = 0 /\ threads = 0 /\ memory = 0 /\ modes = 0 /\
  supported = 0 /\ asked = 0 /\ held = 0 /\ decision = 0

\* One part at a time.
OfPool ==
  /\ part = "pool"
  /\ UNCHANGED <<part, pairsVars, markVars, probeVars, scoreVars, trackerVars, windowVars,
                 legacyVars, sensingVars, budgetVars>>
OfPairs ==
  /\ part = "pairs"
  /\ UNCHANGED <<part, vars, markVars, probeVars, scoreVars, trackerVars, windowVars,
                 legacyVars, sensingVars, budgetVars>>
OfMark ==
  /\ part = "mark"
  /\ UNCHANGED <<part, vars, pairsVars, probeVars, scoreVars, trackerVars, windowVars,
                 legacyVars, sensingVars, budgetVars>>
OfProbe ==
  /\ part = "probe"
  /\ UNCHANGED <<part, vars, pairsVars, markVars, scoreVars, trackerVars, windowVars,
                 legacyVars, sensingVars, budgetVars>>
OfScore ==
  /\ part = "score"
  /\ UNCHANGED <<part, vars, pairsVars, markVars, probeVars, trackerVars, windowVars,
                 legacyVars, sensingVars, budgetVars>>
OfTracker ==
  /\ part = "tracker"
  /\ UNCHANGED <<part, vars, pairsVars, markVars, probeVars, scoreVars, windowVars,
                 legacyVars, sensingVars, budgetVars>>
OfWindow ==
  /\ part = "window"
  /\ UNCHANGED <<part, vars, pairsVars, markVars, probeVars, scoreVars, trackerVars,
                 legacyVars, sensingVars, budgetVars>>
OfLegacy ==
  /\ part = "legacy"
  /\ UNCHANGED <<part, vars, pairsVars, markVars, probeVars, scoreVars, trackerVars,
                 windowVars, sensingVars, budgetVars>>
OfSensing ==
  /\ part = "sensing"
  /\ UNCHANGED <<part, vars, pairsVars, markVars, probeVars, scoreVars, trackerVars,
                 windowVars, legacyVars, budgetVars>>
OfBudget ==
  /\ part = "budget"
  /\ UNCHANGED <<part, vars, pairsVars, markVars, probeVars, scoreVars, trackerVars,
                 windowVars, legacyVars, sensingVars>>

EvidenceInit ==
  \/ part = "pool" /\ Init /\ NoPairs /\ NoMark /\ NoProbe /\ NoScore /\ NoTracker /\
     NoWindow /\ NoLegacy /\ NoSensing /\ NoBudget
  \/ part = "pairs" /\ Pairs!Init /\ Init /\ NoMark /\ NoProbe /\ NoScore /\ NoTracker /\
     NoWindow /\ NoLegacy /\ NoSensing /\ NoBudget
  \/ part = "mark" /\ Mark!Init /\ Init /\ NoPairs /\ NoProbe /\ NoScore /\ NoTracker /\
     NoWindow /\ NoLegacy /\ NoSensing /\ NoBudget
  \/ part = "probe" /\ Probe!Init /\ Init /\ NoPairs /\ NoMark /\ NoScore /\ NoTracker /\
     NoWindow /\ NoLegacy /\ NoSensing /\ NoBudget
  \/ part = "score" /\ Score!Init /\ Init /\ NoPairs /\ NoMark /\ NoProbe /\ NoTracker /\
     NoWindow /\ NoLegacy /\ NoSensing /\ NoBudget
  \/ part = "tracker" /\ Tracker!Init /\ Init /\ NoPairs /\ NoMark /\ NoProbe /\ NoScore /\
     NoWindow /\ NoLegacy /\ NoSensing /\ NoBudget
  \/ part = "window" /\ Window!Init /\ Init /\ NoPairs /\ NoMark /\ NoProbe /\ NoScore /\
     NoTracker /\ NoLegacy /\ NoSensing /\ NoBudget
  \/ part = "legacy" /\ LegacyInit /\ Init /\ NoPairs /\ NoMark /\ NoProbe /\ NoScore /\
     NoTracker /\ NoWindow /\ NoSensing /\ NoBudget
  \/ part = "sensing" /\ Sensing!Init /\ Init /\ NoPairs /\ NoMark /\ NoProbe /\ NoScore /\
     NoTracker /\ NoWindow /\ NoLegacy /\ NoBudget
  \/ part = "budget" /\ Budget!Init /\ Init /\ NoPairs /\ NoMark /\ NoProbe /\ NoScore /\
     NoTracker /\ NoWindow /\ NoLegacy /\ NoSensing

EvidenceNext ==
  \/ OfPool /\ Next
  \/ OfPairs /\ Pairs!Next
  \/ OfMark /\ Mark!Next
  \/ OfProbe /\ Probe!Next
  \/ OfScore /\ Score!Next
  \/ OfTracker /\ Tracker!Next
  \/ OfWindow /\ Window!Next
  \/ OfLegacy /\ LegacyNext
  \/ OfSensing /\ Sensing!Next
  \/ OfBudget /\ Budget!Next

\* The fairness of WorkerPool and ObservedPairs, each for its part.
EvidenceSpec ==
  /\ EvidenceInit /\ [][EvidenceNext]_evidenceVars
  /\ WF_evidenceVars(OfPool /\ MainThread)
  /\ \A w \in Workers : WF_evidenceVars(OfPool /\ Worker(w))
  /\ WF_evidenceVars(OfPairs /\ Pairs!Late) /\ WF_evidenceVars(OfPairs /\ Pairs!Fail) /\ WF_evidenceVars(OfPairs /\ Pairs!Collect)
  /\ \A w \in 0..(MaxLogical - 1) : WF_evidenceVars(OfPairs /\ w \in Pairs!Pool /\ Pairs!Step(w))

ASSUME EvidenceAssumption ==
  PoolAssumption /\ Pairs!ObservedAssumption /\ Tracker!RegressionAssumption /\ TestsAreDistinct
  /\ Budget!BudgetAssumption /\ Mark!MarkAssumption /\ Sensing!SensingAssumption
  /\ Window!PagesAssumption

(* The strict readers accept and score what the engines publish            *)
(* (intercore_observed.h, intercore_observed.py; test_cpu_multi.c,         *)
(* compute_score.py), and only complete attempts are kept.                 *)
PublishedIsSound ==
  /\ [](part = "pairs" => Pairs!ObservedAccepted)
  /\ [](part = "mark" => Mark!MarkAccepted)
  /\ Pairs!KeptIsWhole
(* The inter-core run ends, and every attempt of the observed one does: no *)
(* side waits for ever for one that has given up.                          *)
EnginesEnd == (part = "pool" => Terminates) /\ (part = "pairs" => Pairs!AttemptEnds)
(* A reported capacity is the machine's own (architecture_analysis.py,     *)
(* backend_resource_analysis.py).                                          *)
KneeIsItsCause == part = "probe" => Probe!KneeIsItsCause
(* Better values in the rows that are used, no lower score                 *)
(* (report_score.py).                                                      *)
BetterRowsScoreNoLess == part = "score" => Score!BetterRowsScoreNoLess
(* A regression verdict answers for the runs that were made                *)
(* (test_regression.py).                                                   *)
VerdictMatchesRuns == Tracker!VerdictMatchesRuns
(* The restored pages show one archive, whole (desktop_window.py,          *)
(* result_model.py).                                                       *)
RestoredIsOneArchive == part = "window" => Window!RestoredIsOneArchive
(* A sample tells of now (telemetry.py).                                   *)
SampleIsOfNow == part = "sensing" => Sensing!SampleIsOfNow
(* A change of modes keeps to half of the memory (stress_common.py,        *)
(* run_stress.py).                                                         *)
BudgetIsHalf == [][part = "budget" => Budget!KeepsToHalf]_evidenceVars
=============================================================================
