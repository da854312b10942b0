# A TLA+ model of memorytest

`memorytest` measures processors and memory (C engines driven by a Python
runner), stresses them (a supervised set of load processes) and shows both in a
Qt desktop window, together with sensors read with or without privileges.  This
directory models the parts of it in which several processes or threads have to
agree on something, checks them with TLC and proves what TLAPS can prove.

1. [The system](#1-the-system): components, state, operations, hazards
2. [The modules and the code](#2-the-modules-and-the-code)
3. [The runs](#3-the-runs): what each shows, bounds, fairness
4. [The proofs](#4-the-proofs)
5. [Where code and documents disagree](#5-where-code-and-documents-disagree)
6. [What is not modelled](#6-what-is-not-modelled)
7. [Plan](#7-plan)

Paths below are relative to the repository.  `PROJECT.json` maps every
definition to its lines.

## 1. The system

```
 desktop window ──starts──> run_benchmarks (runner) ──starts──> one engine at a time
   │   │   <──event lines──   │      └─writes─> runs/<id>/manifest.json, reports/
   │   └──cancel file────────>│                                (C programs; inter-core and
   │                          └─> prune_archives                ComputeMark are threaded)
   │
   ├─stress page ──starts──> run_stress (supervisor) ──pipes──> stress_cpu, GPU worker
   │   │   <──event lines──   │      └─writes─> stress-runs/<id>/manifest.json, samples
   │   └──request.json───────>│
   │
   ├─sensor worker ──snapshot file──> supervisor and page
   └─privileged helpers (telemetry, hardware inspection), one request at a time
```

| Component | State | Operations | How it talks | What is hard | What makes it correct |
|---|---|---|---|---|---|
| **Stress session** `run_stress.py`, `desktop_stress.py`, `process_control.py`, `src/stress_cpu.c`, `stress_gpu.py` | page: active, boxes, timers; supervisor: applied modes, reason, children, event queue; archive manifest | start, stop, toggle a mode, force stop; poll, apply, drain, check, sample, finalise; beat, fail, exit | one-slot control file (atomic replace), event lines, child pipes with reader threads, signals | a request overwritten before it is read; an old force timer; a switch that fails half way; lines of a child already replaced; parent, child or supervisor dying anywhere | no load outlives its session; the verdict matches what happened and is written over a stopped load; a stop always ends it |
| **ComputeMark sample** `src/test_cpu_multi.c` | a gate on the stack (mutex, one condition variable, counters) | create, gather, open or abort, work, join | pthreads | partial creation; one condition variable for three predicates; a clock that stands still | an N-thread sample is timed over N threads, all of their work, and no thread touches the gate after the return |
| **Inter-core pool** `src/test_inter_core.c` | one structure per worker, one flag per CPU, plain task and result fields | create and pin, dispatch a pair, swap in turns, read, destroy | acquire/release flags, per-worker condition variable, CAS | plain fields handed between threads; a refused dispatch; waking one side only; failed creation | a result belongs to this dispatch and to both sides; strict alternation; free after the last thread |
| **Benchmark suite** `run_benchmarks.py`, `benchmark_registry.py`, `desktop_window.py` | window: status per module, cancel file; runner: position, interrupted; manifest; raw directory | begin, cancel, close, read events; announce, build, run, validate, publish, record, judge, report | process exit, event lines, cancel file, parent's death | interrupt at any statement of the `try`; exit signalled before output is read; a put-off close | the window shows what the archive says; only successes are published; nothing starts after an interruption; no engine is left |
| **Archive retention** `result_storage.py` | directories with manifests, lock file | list, decide, delete; lock, skip | file system, by several processes | decisions on manifests read earlier; deletion in pieces; crash in between; a skipped prune | the newest ten survive; a working writer's archive survives; nobody deletes concurrently |
| **Observed core pairs** `src/intercore_observed.h`, `intercore_observed.py` | generation, arrival counters, deadline, attempts | meet, bounce, expire, classify, audit, replay | atomics between threads; a JSON audit | a side that gives up in another generation; CPUs that change under the clock | nobody waits for a peer that gave up; the strict reader accepts what the engine publishes |
| **Elevated monitoring** `monitor_access.py`, `src/telemetry_privileged.c` | connection state, active flag, generation, sample file | start, set_active, read, publish, pause, resume, close | socket to the root helper, reader thread, sample file | activity changed between read and send; a late sample published after a pause; any of five processes dying | no reading of before a pause counts during or after it; heat or silence stops the load; the helper ends with the application |
| **Hardware inspection** `hardware_access.py`, `desktop_hardware.py`, `hardware_inspector.py`, `src/hardware_privileged.h` | page's request and deadline, inspector's status and session | refresh, query, time out, cancel, close | socket, worker thread or process | late answers; cancel against completion | the page shows the answer to its last request or nothing, and every request ends |
| **Sensor worker** `telemetry.py`, `telemetry_stream.py`, `sensor_definitions.py` | catalog, files found, energy readings, helper's last line | discover, read, put, wrap, publish | `/sys`, helper's lines, snapshot file | files that come and go, a wrapping counter, a full catalog, old lines | what a sample tells is of now |
| **Stress arithmetic** `stress_common.py`, `run_stress.py` | none of its own | available memory, limits, check of a change | called by the session | memory credited or counted twice, other programs | a change keeps to half of what is available |
| **Measurement arithmetic** `src/sample_statistics.h`, `sample_statistics.py`, `src/thread_schedule.h`, `src/bench_protocol.h`, `src/memory_kernels.h`, `inter_core_cluster.py` | none | quartiles with rejection, thread stages, growth of iteration counts, clusters | called by engines and readers | small sizes, overflow | agreement of C and Python |
| **Architecture probes** `src/test_cpu_architecture.c`, `architecture_analysis.py`, `backend_resource_analysis.py` | timed points of a scan | scan, retry a loose point, read the step off | JSON of the run | a machine that changes speed during a scan | a reported capacity is the machine's own |
| **Reports, presentation** `report_score.py`, `result_model.py`, `desktop_results.py`, `report_html.py` and others | score, tables, pages | parse, score, split, restore | report files of archives | stale reports, old formats, broken archives | better measurements score no less; pages show one archive |
| **Regression tracker** `test_regression.py` | `history.jsonl` | extract, record, compare | reports, an appended file | a crash while appending; values that cannot be read | a verdict answers for the runs that were made |
| **Legacy command line** `generate_report.py` | password, results, report files | ask, build, run, keep, sum up | sudo, engines, files of several owners | stale files, failed writes | `[PASS]` means this round's output |
| **Single-threaded engines** `src/test_cache_hierarchy.c` and others | buffers | timed kernels | report files | timing | equal work per sample |
| **Platform detection** `src/detect.c`, `src/platform.c`, `src/pmu.c`, `system_info.py` | none | read `/proc`, `/sys`, registers | files | missing data | unknown stays unknown |
| **Packaging** `Makefile`, `packaging/` | none | build | files | none | none |

`PROJECT.json` lists, per source line, the hazards these components are exposed
to and the properties that would notice each of them going wrong.

## 2. The modules and the code

Every module says at its head what its steps stand for.  Three conventions are
common to all.  *Time limits are choices*: a deadline is an action that may
happen whenever its condition allows, so that every race with it is explored.
*Faults are counted*: crashes, failed starts, failed writes and signals share a
budget `MaxFaults`.  Definitions commented `Mutant` are not part of the
specification: each is a plausible slip in the code, and `PROJECT.json` names the
property that breaks when it takes the place of the definition below it.

### StressSession, SessionContract, StressSessionProofs

| State | Code |
|---|---|
| `gui` | `StressPage`: `active`, generation, status, check boxes, pending 8 s timers, whether `kill_tree` is between its two kills |
| `request` | `request.json`, one slot, replaced atomically |
| `sup` | `run_session`: place in the code, `modes`, the switch being applied, last request seen, `reason`, `failed`, heartbeat age |
| `cpu`, `gpu`, `mask`, `orphans` | the child processes, the mask last sent, load nobody tracks any more |
| `pipe`, `queue` | a child's line not yet read by its reader thread; `events` |
| `out` | events the page has not read |
| `manifest` | status, reason, writer and report of `manifest.json` |

The supervisor's actions follow `run_session` top to bottom: `Boot` (119-136),
`SpawnCpu` (174-183), `Change` (155-172: it sends the mask, starts or stops the
GPU child, and may raise after each), `Poll` (184-209), `Drain`, `Check`,
`Sample`, and the `finally` clause in three steps, `StopChildren`,
`WriteVerdict`, `Publish`.  `sup.escaped` marks that stopping the GPU child
inside `change()` timed out: `TimeoutExpired` is not among the exceptions the
`except` clause names (run_stress.py:259), so the reason stays the initial
`user_stop`.  Printing an event when the page has died raises `BrokenPipeError`:
inside the `try` block that is a failure of the session, elsewhere the end of
the process.  `Uncaught` is what `run_session` does not catch: before the first
manifest a process that cannot be started, settings that are refused or a
directory that cannot be made; in the `finally` clause a manifest that cannot be
written.  It ends the supervisor where it is, with a manifest that is missing or
stays as it was (`sup.unsaved` remembers it), and the page has only the exit code
to tell by.  The page's `kill_tree` is two steps, because children started
between them survive.  `SessionContract` is the abstract specification: what a
reader of an archive may rely on, with no processes in it; `Phase` and `Loaded`
are the mapping to it.  `StressSessionProofs` holds the proofs.

Abstracted: the capability probe, the idle worker (one with "running"), the
contents of samples, the page's plot and table.  Not modelled: a full event
queue (128 slots, of which `TypeOK` shows only a few are ever used).

### ComputeGate, ComputeGateProofs

`measure()` and `worker_main()` of ComputeMark for `N` threads: creation that may
stop short, the wait for those created, abort or open, the counted work. The join is
the loop over `tids[0..created-1]`, one thread a step: `joined` counts how far it
has come, and only a thread that has returned (`Exit`, after the unlock of
"leaving") lets it go on. The code knows `created`, not the threads; that nobody is
missed is for `NoThreadOutlivesGate` to say. `asleep` is the set of threads blocked
on the one condition variable; `SpuriousWake` models what POSIX allows. The clock is
read at the gate and by every thread and may stand still between readings.

### WorkerPool

The Linux pool of `test_inter_core.c` and the loops of
`run_inter_core_latency_test` that dispatch to it: warm-up, latency matrix,
calibration of the throughput iterations, throughput matrix.  `Dispatch`,
`WakeI`, `WakeJ`, `WaitI`, `WaitJ` are `dispatch_pair`; a worker waits, begins,
swaps and ends its task as `worker_main` does.  A failed compare-and-swap is no
step; cross-thread fields follow acquire/release edges, so interleaving is
sequentially consistent.

### BenchmarkSuite, MCBenchmarkSuite, BenchmarkSuiteProofs

`window` is the state of `MainWindow` that concerns a run, `suite` the position of
`run_suite`: `Boot`, `Announce`, `Check`, `Build`, `Start`, `WaitForCommand`,
`Compiled`, `Measured`, `Validate`, `Publish` (one copy at a time), `Record` (the
`finally` clause up to the saved manifest), `Judge`, `Report`, `Latest`. Both the
announcement and the outcome are saved first and told afterwards, line by line
(`TellModule`). `Plan` is the sequence of executions `select_modules` and the shared
cache run amount to; one execution may serve two modules. `Signal` is a
`KeyboardInterrupt` at any place: inside the `try` block the module is interrupted,
elsewhere the runner ends. A dead window makes the next event or progress line
raise; in the `finally` clause a progress line precedes the manifest, whose row then
stays "running". The report process cannot be cancelled, and its time limit ends the
runner. An engine that cannot be reaped keeps the runner in `Popen.__exit__`, so it
is not a state of its own.

### ArchiveRetention, ArchiveRetentionProofs

Workers write one archive each and prune afterwards; windows only prune.  `Lock`
and `Skip` are the nonblocking `retention_lock`; `List` reads all manifests
before anything is deleted and keeps what it read in `doomed`; `BeginRemoval`,
`EndRemoval` and `FailRemoval` are `rmtree`, during which the manifest may
disappear before or after other files (`torn`, `debris`).  The system releases
the lock of a process that crashes.  `stamp` is an archive's place in the order
`archives()` sorts by, the time and then the path, so no two share one: with
places that may be equal, and lists that order them at random, a removal that
failed half way would make two lists delete one round too many.  Listing is one
step: a manifest that
changes during it could only be read with a writer that has just been removed,
which spares the archive.  Process identifiers are not reused
(`psutil` compares creation times) and the wall clock does not run backwards.

### ElevatedMonitor, ElevatedMonitorProofs

`screen` is the stress page and the application, `monitor` the fields of
`MonitorAccess` (status, generation of the last `set_active`), `reader` its
thread, `toHelper` and `toReader` the two directions of the socket, `helper` the
root process, `file` the sample file, `preview` the sensor worker of the page,
`latest` what that publishes, `since` the supervisor's `latest_at`.  Time goes
in ticks of a second in which helper, sensor worker and supervisor sample once,
in any order.  The reader reads the activity (`ReadActive`) and sends it (`Tell`)
in two steps, takes a line and publishes it in two steps; `reader.blocks`
distinguishes the text of `powermetrics` from JSON lines.  The helper is at one
place of its loop: in `select` (up to 200 ms), in `send`, in `stop_child`
("stopping", a second at most), after the loop ("leaving"), or held by the kernel
in a sensor it reads or a child it waits for ("stuck").  It looks for its parent
only at the start of a turn (`NextTurn`), sees a closed connection only in
`select` (`HangUp`) or by a `send` that fails, the first of which may still
succeed.  The last five
variables only record how long something has lasted, for the properties.

### HardwareInspection, PageContract, HardwareInspectionProofs

The page's refresh, deadline, cancel and close, and either a worker process or
the `InspectorAccess` thread with its session of queries.  `session` is the one
connection with the replies still under way; a timeout ends it (`EndSession`),
because a further query would take the old reply for its own.  The thread writes
`status = "reading"` without looking (hardware_access.py:114) and so may replace
"cancelled"; the page has dropped the thread by then.  `PageContract` is the
abstract page: ask, show, give up; the detailed module is shown to implement it,
its liveness included.

### ObservedPairs

The unpinned pool of `intercore_observed.h`: `worker[w].at` is a worker's place
in an attempt, `shared` the flags the main thread resets, `late` the deadline.
`engine` is what the main thread keeps, `audit` the strict reader's state after
the attempts written so far (`intercore_observed.py` replays them one by one).

### ComputeMark

A run over the thread gradient: `Schedule` is `thread_schedule.h`, `Calibrate`
grows the iteration count in words that overflow at `Word`, samples are taken,
the stage is judged stable or not, the reader recomputes operations and score
from the report.  One measurement, the module ComputeGate, is one step here.
`Schedule` is written over the number of `Doublings` the loop of the engine
makes, `Gradient` is the reader's own list of stages; that the two agree is part
of what has to be shown.

### ArchitectureEvidence

Three scans (branch targets, branch layouts, resource windows) measured point by
point in the engine's order on a machine with hidden limits, while its speed may
change once and `MaxDisturbed` points stay loose; then the readers' verdicts over
the points.  `btb_transitions`, `read_btb_layout` and `_window_candidate` are
`BtbTransitions`, `LayoutTransitions` and `WindowCandidates`.

### ScoreCard, ResultPages, RegressionHistory, EvidenceSamples

What is made of finished reports.  A report is the sequence of its tables, a
value a whole number.  `ScoreCard` scores two runs that differ in one report;
`ResultPages` restores the newest readable archive over the pages, splits
combined results of old archives (`PagesOf` says which pages a module fills) and
then lets a benchmark replace them;
`RegressionHistory` is `test_regression.py` with its appended file, where a crash
may leave half a line; `Ranked` puts the lines that can be read, and the values of
a window, in their order.  `EvidenceSamples` holds the small reports and archives.

`MCScoreCard` holds three runs of the floating-point module for the run
`faster_score`.

### LegacyRun

`generate_report.py`: one process is one round, files outlive it.  `files` says
of every file what is in it (the engine's report, part of one, the log), of which
round and whose it is; `CanWrite` is the permission that follows.  A password
that was not verified is used all the same (`Sudo`).

### SensorProvider

`Provider` on the three platforms.  `past` is the machine's history tick by tick,
which the properties compare with what a sample shows.  `LinuxSample` is the
whole of `linux()`: look at hwmon if the last look is old, put every reading
under its identity, raise the alarm for every hot file, turn the energy counter
into power.  The files found are taken in a fixed order (`InOrder`).

On macOS and Windows a helper process reads (`HelperReads`), prints
(`HelperPrints`) and a thread takes the line and stamps it (`LineArrives`), three
steps with the machine free to change between them.  The code times only the
last; that no reading is longer than `Delay` on its way is an assumption, made in
`Tick` (`Prompt`).  What a line says has different causes: the values are the
sensors' at the reading, `permission_denied` on macOS is how opening the SMC ended
when the helper started, on Windows the provider's answer to this query, and
`thermal_critical` is macOS's thermal state at the print, which no sensor
decides.  `FilePublished` is `sample.json` of the elevated path, whose readings
and alarm `HelperSample` and `LinuxSample` take last and for `Life.file` ticks.
A helper may die and its last line goes on to count as long as it may.

### MemoryBudget

`Probe` is what the page offers, `Change` the check in `run_session.change`, the
threads take and give their blocks one by one later (`Worker`), other programs
theirs (`Others`).  `decision` is the outcome of the step just taken.

### MCElevated, MCEvidence

Each puts modules side by side that share no state, so that one run checks them:
a variable `part` says which of them a behaviour is about, and the variables of
the others rest.  `MCElevated` extends `HardwareInspection` and
`ElevatedMonitor`, `MCEvidence` extends `WorkerPool` and `LegacyRun`, so that
their properties are the very definitions the proofs are about (the variables
rest in their initial state when another part is played); this is why
`ElevatedMonitor` and `LegacyRun` call their specification `MonitorSpec` and
`LegacySpec`.  The other parts are instances, and a property of theirs is stated
under `part`.  The specifications are `BothSpec` and `EvidenceSpec`.

## 3. The runs

| Run | Question | Instance | States |
|---|---|---|---|
| `stress_session` | safety of a session and its refinement of `SessionContract` | two sessions, RAM and GPU load, two toggles, one fault | 1.5 M |
| `stress_liveness` | does every stop end, every load stop, every error end its load, every switch arrive | one session, two toggles, one fault, `FairSpec` | 0.2 M |
| `stress_lost_stop` | does a stop request stay until it is seen (violated) | one session, one toggle, no fault | small |
| `stress_parent_exit` | does a session whose page died get a verdict (violated) | one session, one fault | small |
| `compute_gate` | is a sample measured over all threads and all their work | 3 threads, clock to 3 | 0.3 M |
| `benchmark_suite` | does the window show what the archive says; what follows an interruption | two runs, a shared execution and a single one, two faults | 0.15 M |
| `suite_partial_copy` | are only successes published (violated) | one run, one fault | small |
| `archive_retention` | what may be deleted, by whom, what is left | 3 workers, 1 window, 1 old and 1 foreign archive, keep 1, one fault | 1.6 M |
| `archive_lost` | does a worker's archive survive until it ends (violated) | 2 workers, 1 window, keep 1, no fault | small |
| `elevated` | is a pause clean, a load guarded, the helper never left over; does the page keep its contract | ages half of the real ones (2, 2 and 4 ticks), three actions of the user or faults; two refreshes of two queries | 1.2 M |
| `evidence` | is what engines publish sound, and what is made of it true | ten parts, see below | 1.1 M |
| `faster_score` | does a faster machine score no less (violated) | pairs of three runs of the floating-point module | small |

**Why the bounds are enough.** Two sessions (runs) are the smallest number at which
something of the first can disturb the second: a timer, an event, an orphan, a
control file; a third meets the same state. Two toggles make a mode go off and on
again between two polls. One load mode besides the GPU is enough because
`stress_cpu` takes a mask and treats every bit alike. Three threads are needed for a
partial creation, an unfit thread and a late one together; three CPUs for a pair
that shares one worker with the next pair and none with the one after. With `Keep =
1` and four owned archives a list is longer than what it keeps by three, so several
deletions follow from one list; that the value of `KEEP_RUNS` (10) only moves that
boundary is what the proofs show. Two faults allow a failure during the handling of
another one.

The parts of `evidence`: the pool on 3 CPUs, all 6 ordered pairs, both matrices,
none to two doublings; observed pairs on 3 CPUs with 2 or 3 workers and 2 attempts,
the least at which an attempt can meet what the one before left over; ComputeMark
with 1 to 3 threads and a word that overflows within five doublings; scans of 7
counts, 3 spacings and 8 fillers, limits inside and beyond them, one change of speed
or one loose point; pairs of runs differing in one report; five regression runs and
a crash, so that a baseline of two can reach over a lost line; four archives of
different ages; two rounds of the older command line; two sensors and a policy for a
catalog of two, two ticks, in which a counter wraps and cannot be read for a while,
lines and the file that live one tick and come one tick late, two changes of a Linux
machine and one of the others; memory for none, one or two MiB, which three threads
cannot share evenly.

Half of the real ages in `elevated` keeps their order (a snapshot dies
before the supervisor gives up on it) and leaves two ticks in which a reading
may still count.

**Fairness** appears only in `FairSpec`s and in the specifications of the parts
named here.  `StressSession`: the supervisor's loop and reader threads run, Qt
delivers timers, output and process ends, an orderly child exits at end of
input.  Nothing is assumed of the user, of the duration limit, of failures, or of
a hung GPU (its heartbeat limit is).  `ComputeGate` and `WorkerPool`: the kernel
runs every runnable thread; spurious wake-ups and the clock get no fairness.
`BenchmarkSuite`: the runner proceeds (every command has a time limit) and Qt
reports its end.  `ElevatedMonitor`: only the helper's loop (`HelperStep`), because
`select` ends after 200 ms, `stop_child` after a second and `send` once the
connection is read or closed; nobody else has to move, and a helper the kernel
holds need not.  `HardwareInspection`: only the page's
deadline, a Qt timer.  `ObservedPairs`: the deadline passes, the threads run, the
main thread collects.  All other modules need none.

**What the properties say**, beyond one type invariant per module:

* *LoadFollowsModes, NoLineOfOldGpu*: a switch that raised half way never leaves
  a running session with another load than its modes, and a GPU child switched on
  again is never judged by its predecessor's output.
* *SessionIsSound, FailureIsShown, ContractHolds*: the verdict is true (a stop is
  by the user only if the user asked), complete, written over a stopped load, and
  the page shows it.  A session nobody stopped that has no verdict is one the
  supervisor could not start or record, and the page shows an error.  The verdict
  of a session whose GPU child could not be stopped inside `change()` is excepted:
  it is wrong in the code (section 5).
* *StopEnds, LoadStops, ErrorEndsLoad, LoadConverges*: the session's promises to
  the user.
* *WorkNeedsAll, SampleCoversWork, NoThreadOutlivesGate, Returns*: a ComputeMark
  sample.  `NoThreadOutlivesGate` relates what `measure()` counted and joined to
  all the threads there are.
* *ShownIsArchived, SuiteIsSound*: window and archive agree, although one learns
  of the other by lines and an exit code only.  They differ in one case: a runner
  that dies after `save_manifest` (run_benchmarks.py:285) and before the lines that
  tell of it leaves the modules at hand shown as failed, in a run shown as
  incomplete whose archive is not finished.  What passed is published and what
  is called a success is archived as one.
* *InterruptedStartsNothing, NoEngineLeft, CloseEnds*: the runner.
* *NewestKept, UnfinishedSurvives, OnlyOneDeletes*: what a prune may not do, on
  information however old; *RetentionReached*: what all prunes together achieve
  when none was skipped and nothing failed.
* *PauseIsClean*: a pause empties the sample file for good, and nothing read
  before it is published after it, although the reader checks the activity and
  publishes in two steps and may send an activity that is no longer true.
* *LoadIsGuarded, StopsForHeat*: a load runs neither hot for more than three
  seconds of a whole path nor blind beyond `StaleStop`, and is only stopped for a
  heat that was there no longer ago than the two ages a reading can reach.
* *HelperEnds*: wherever in its loop the end of the application meets it, the root
  helper ends as well, without anyone left to signal it.
* *PageKeepsContract, ReplyMatchesQuery*: the hardware page.
* *PoolIsSound, EnginesEnd, PublishedIsSound*: no data race and no stale result in
  the pool, strict turns, memory freed last; both engines end; the strict readers
  accept and score what the engines publish, and only whole attempts are kept.
* *KneeIsItsCause, BetterRowsScoreNoLess, RestoredIsOneArchive, VerdictMatchesRuns*:
  what readers make of it. BetterRowsScoreNoLess is about two runs of which the
  parsers use the same rows; where a better value makes a row drop out the score may
  fall, which `faster_score` shows. KneeIsItsCause admits what the layout scan
  cannot tell: both offsets of a count are neighbours in time, so a lasting
  slow-down of 30 % between two counts looks like a layout transition; and it is
  about one disturbing cause at a time. RestoredIsOneArchive has two parts:
  `OneArchive`, that pages naming an archive name the same one and show its parts
  until a benchmark takes them, and `NothingInvented`, that a split gives every row
  of a combined result to one page and a failed row shows nothing.
* *PassIsThisRounds*, *SampleIsOfNow*, *BudgetIsHalf*: the older command line, the
  sensors, the memory of a load.  SampleIsOfNow has four clauses: values are of the
  life of the line or file they came by and the delay before; an alarm has its
  cause (a hot sensor on Linux, the thermal state on macOS) and the cause its
  alarm; a refusal was one (of the counter's file, of the provider or reader, of
  the SMC at the helper's start); the power is the mean since the last reading.
  The power may be off by one unit of the counter
  where it wrapped, because `max_energy_range_uj` is its largest value.
  BudgetIsHalf is about switches made when the RAM is as the modes say, and counts
  what the blocks of the threads are rounded down by as memory there is: without
  that rest TLC finds a switch beyond half as soon as the threads do not divide
  the RAM.

## 4. The proofs

All theorems are about the modules as the runs check them, for every value of the
constants that satisfies the named assumptions; the bounds on sessions, faults
and the like are constants as well, so the theorems hold for any of them.  The
invariants were checked with TLC on small instances before they were proved.

### ComputeGateProofs

`ComputeGateProofs` proves for **every** number of threads and every clock, from
`NAssumption` (and the bound on the clock being a natural number) alone:
`TypeCorrect`, `WorkNeedsAllHolds`, `SampleCoversWorkHolds`,
`NoThreadOutlivesGateHolds`.

None of the properties is inductive: they speak of threads, while the code only
knows counters. The inductive invariant is `IInv == TypeOK /\ Counting /\ Phases /\
Joins /\ GateState /\ Times`. `Counting` says that the threads there are are the
first `created` and that `ready` and `done` are the cardinalities of the sets of
threads that have passed the respective line; with `SetsFinite` and `OneMore`
(lemmas over the library's finite-set theorems) `ready = N` then means *all*
threads, which no single step shows. `Phases` ties the main thread's position to the
gate (never both open and aborted; it returns with `joined = created`), `Joins` says
that the threads joined so far have returned, which with `Counting` are all of them
at the return, `GateState` the gate to the workers (open: all were created and are
ready; not open: nobody is in counted work), `Times` the time stamps to the clock.
The argument goes: the gate opens only at `ready = created = N`, hence everybody's
work starts after `start`; the last to count itself done writes `end`, hence
everybody's work ends before; the `created` threads main joins are all there are.

### ArchiveRetentionProofs

For **any** sets of workers, windows and archives and any `Keep`:
`TypeCorrect`, `UnfinishedSurvivesHolds`, `OnlyOneDeletesHolds`,
`NewestKeptHolds` and `RetentionReachedHolds`, from `ArchivesAssumption`
(finitely many archives; workers, windows, old and foreign archives are different
things), `SharedAssumption` (there is a process) and `BoundsAssumption`.  The
question is what a process may still believe of a list it read some time ago.
The invariant `IInv` adds to the first properties: `LockHeld`, the lock is held
by exactly the process that lists or deletes, hence nobody else removes a
directory; `ListFresh`, the entries of a list are different archives, none is
gone or not yet begun, and an entry whose worker still writes names that worker;
`Places`, what a worker's place says about its directory and manifest (an archive
not yet announced is on no list, so a worker cannot start to write one that is
about to be deleted); `VictimFinished`, the worker of a directory being removed
has released it or ended.  `Counted` bounds the clock by the number of archives
begun.

Two more invariants stand on it.  `Retained` is about what is kept.  A list is
deleted from newest to oldest, so the archives newer than an entry may still be
deleted before it: `KeepsEnough` says that every entry has `Keep` newer whole
archives *that are on no list*.  It begins to hold in `List` (`FirstAreKept`),
where the first `Keep` places have to be whole archives: a broken one among them
would have `Keep` whole ones before it, by `NewestKept` of the state before, and
there is no room for them.  So failed and interrupted removals use up no place.
`Reached` is about what is gone: without a fault directories in pieces belong to
a removal under way and nobody but a running worker is named as a writer
(`Tidy`), and once all processes have listed, what is neither kept nor on the
last list is at most the last reader's own (`LastListIsDone`).

### EngineProofs

Both inter-core engines and the stages of ComputeMark.

`PoolIsSoundHolds`, for every number of CPUs, rounds and samples, from
`PoolAssumption`.  Which thread may touch a worker's plain variables is written
nowhere in the C code.  `Borrowed` defines it from the main thread's place: a
worker is lent from the moment it is woken until its completion has been taken
back.  `Handover` says how far a lent worker can have come, read off
`ready_to_run`, `done_flag` and its place, and that all others rest; `Task` that
both sides of a dispatched pair have the roles, targets and counts of this
dispatch; `PoolThreads` which exist and which are joined.

`PublishedIsSoundHolds`: under `EvidenceSpec` the strict readers accept what the
observed pairs and ComputeMark publish, and only whole attempts are kept, for any
number of CPUs, attempts, samples, threads and any width of a word, from
`ObservedAssumption` and `MarkAssumption`.

For the *observed pairs* the reader does not know the engine; it replays the
attempts it finds and has to come to the same pairs.  `Replayed` says that it has,
after every attempt.  That rests on what an attempt can have measured, and a
thread of an earlier attempt might still be writing: `Underway` says that the
completion counter is the number of workers that have come back (`Back`), so that
the main thread goes on only when all of them have, and `Measuring` that a worker
has measured nothing before it was on the clock, and only ever a whole exchange
unless the attempt has failed.  An attempt marked as failed is kept by neither
side, so a late worker of it does no harm.

For *ComputeMark*, `Planned` says that the stages measured and those to come are
together the engine's plan, in its order; `Sampled` that every sample counts the
operations of its own stage and that their number fits the word it is written in
(`GuardedFits`: the guard is computed for the integer workload and serves both,
because `FpOps <= IntOps`).  The reader looks for its own gradient of stages.
`ScheduleIsGradient` shows that the engine's loop over doublings yields the same
list, and `ScheduleLevels` that no number of threads occurs twice, for up to
2^18 threads, the limit of `thread_schedule.h`.  `Power` is a recursive function;
its nineteen values are calculated one by one (`PowerValues`), with no induction.

### BenchmarkSuiteProofs

`SuiteIsSoundHolds`, `ShownIsArchivedHolds`, `InterruptedStartsNothingHolds` and
`NoEngineLeftHolds`, for **every** plan (a sequence of executions without a
module in common, `PlanAssumption`), any number of runs and faults.  The window
learns of the archive by lines it reads late or never.  `Agreed(m)` says what
lines on their way are worth: "running" comes before the outcome, an outcome is
the archive's, and one the window does not have yet is still on its way, unless it
is `Untold`: saved, while the runner has not come to its line or ended before.
`NotReached` says that later executions have left no trace, `Copied` which
reports are there, `Remembered` that an interruption leaves only skipping to do,
`Judged` that a verdict is about the rows as they are.

### HardwareInspectionProofs

From `InspectionAssumption`, for any number of refreshes and queries:
`ReplyMatchesQueryHolds`, and `PageKeepsSafety`, that every step of page,
readers and worker process is a step or a stutter of `PageContract!Safety`.
`Page` says that a page is reading exactly as long as it waits for its one
reader; `Readers` that a reader which can still read an answer has no other
under way (`InStep`), and that readers of requests not yet made do not exist, so
a reader the page has dropped can reach none of its variables.

### StressSessionProofs

For any CPU modes and any number of sessions, switches and faults:
`LoadFollowsModesHolds`, `NoLineOfOldGpuHolds`, `SessionIsSoundHolds`,
`FailureIsShownHolds`, and `ContractIsKept`: the specification implements
`SessionContract`.  The invariant has a part for what each of the participants
may believe, by the supervisor's place.  `Asked`: a timer of this generation, a
kill under way, a signal or a stop in the request file mean that somebody asked.
`Archive`: how far the manifest is, and that a supervisor which ended early was
stopped, lost its page or is `unsaved`.  `Verdict`: a failure names a cause and
`user_stop` stands only for a stop somebody asked for (or the child that could
not be reaped).  `Shown`: a running session is shown as running or stopping, and
a `finished` event in the pipe carries the supervisor's reason.  `Tracked`: where
there can be children and lines, and that lines of a stopped GPU child are
drained before the next one starts.  `Counted` is needed for the type of the
queue alone: every line is an error a fault paid for, or the one heartbeat.  For
the refinement, `SupervisorContract`, `PageContract` and `ChildrenContract` take
the steps of the three groups one by one; `PhaseAt` reads the abstract phase off
the supervisor's place.

### ElevatedMonitorProofs

`LoadIsGuardedHolds`, `StopsForHeatHolds` and `PauseIsCleanHolds`, for any ages of
file and snapshot of at least two seconds, any `StaleStop` not below `SnapshotLife`,
and any number of actions and faults. The hypothesis `MonitorAssumption` (an
`ASSUME` of `MCElevated`) says this; the code's ages are 4, 3 and 8 seconds. That a
snapshot may not outlive the supervisor's patience is needed: one that could be used
for longer would keep a silent load running. `Heat` measures every critical reading
on its way by the seconds since the heat. `Reached` follows a heat along a whole
path: a second in which the helper samples ends with it in the file, the next with
it in the snapshot, and the supervisor's sample of the one after stops the load;
`Silence` does the same for the clock of the last snapshot. For a pause, `Paused`
says that a file that counts is younger than the pause, since the reader only
publishes in the second in which it saw the path active, and `Epochs` that no
reading of an activation that is over is on its way. One case is not obvious: when
the activity changes between `ReadActive` and `Tell`, the helper may stop although
the path is active and a block of the activation that is over stays in hand; it is
never published because nothing comes to complete it before the generation moves on
(`Silent`, which speaks of a helper still `InLoop`: one that leaves or is stuck
sends nothing more).

### EvidenceProofs

The older command line, the memory of a load, the sensors, the restored pages and
the regression history.  The last four are parts of `EvidenceSpec`; their
constants are subject to `EvidenceAssumption` of `MCEvidence`, which collects the
assumptions the modules name.

`PassIsThisRoundsHolds`, for any two lists of tests in which no test is listed
twice (`TestsAreDistinct`; `tests.json` is such a list).  `Ahead` says that a test
still to run has no result, so that no engine writes to the file of a test that
has passed.  With a test listed twice this would be wrong while the second run of
it is under way.

`BudgetIsHalfHolds`, for every size of blocks, overhead and number of threads and
any levels of free memory.  The code divides three times (half of what is
available, whole MiB, the RAM of each thread), and each division rounds down.
`MaximumIsExact` shows that the comparison in MiB decides exactly as one in units
would; with `Quotient`, which bounds the rest of each division, a switch is let
through if and only if what it needs fits the half.

`SampleIsOfNowHolds`, for any sensors, catalog size, interval between two looks,
lives of lines and file, delay and period of the counter. A sample is made of things
remembered at different times. `Remembered` follows a reading from the helper's hand
(`HeldIsKnown`) through the pipe (`PipeIsKnown`) to the line the provider keeps
(`LineIsKnown`): each is how the machine was no more than `Delay` before the time
stamped on it, its thermal state no earlier than its values. `FileIsKnown` says the
same of the elevated path's file, `CounterIsKnown` of the last reading of the
counter and the files found at the last look. `SensingPast` says that the energy
taken only grows, so that the difference of two readings of a wrapping counter tells
the energy between them up to one unit (`CounterTells`), if the counter has not gone
round. `InOrderIsAll` shows that taking the files in order neither loses nor doubles
one, `FoundAtLook` that what a Linux sample reads is what was there at a look less
than `Rediscover` ticks ago, hence that a sensor hot for longer raises the alarm.

`OneArchiveHolds`, for any sequence of archives in which no two rows fill the same
page.  `PagesAssumption` says so, and `select_modules`
(src/benchmark_registry.py:58-71) is why: it drops doubles, and the modules that
another one combines.  Without it the second row would take the page of the
first.  `Collecting` follows the parts gathered row by row (`RowsApart`: each for
a page of its own), `Showing` the pages they are shown on one by one, and
`Standing` says what remains: each page shows its part of the one archive, or
names none because a benchmark has begun.  A broken row discards what was
gathered before it, so no part of an older archive is left among those of the
next.

`VerdictMatchesRunsHolds`, for any reports whose parsed metrics are whole numbers
(`RegressionAssumption`), any baseline and percentages, any number of runs and
crashes.  A crash spoils its own record, and the run after it loses its own by
appending to the same line.  `Survived` keeps the account: each line that can be
read is of a run no longer ago than the readable lines from it on and what is
`Spoilt`, two runs for every crash, less what the open line at the end has yet to
cost.  Every append earns or pays exactly what it accounts for (`NewLine`,
`PartOfLine`, `SpoiltLine`, added up in `Survives`).  `Recent` carries this over
to the list `load_history` returns, so the window of the baseline lies within the
latest runs (`WindowIsLately`).  `RankedIsAll` shows that each rank belongs to one
place, so twice the median is the sum of two values of the window, and
`MeanOfTwo` that a value which leaves both far behind on one side leaves their
mean far behind, and one close to both is close to it.

### What is only model-checked

* *Liveness*: `Returns`, `EnginesEnd`, `CloseEnds`, `HelperEnds`, the four of
  `stress_liveness`, and `Ends`, the part of `PageKeepsContract` that is not
  `Safety`.  They need fairness and `ENABLED`.
* *What sums, folds and filters over sequences compute*, which needs induction over
  data: `BetterRowsScoreNoLess` (a score is made of medians and weighted sums over
  the rows of reports), `NothingInvented` (a split filters the rows of tables).
* `KneeIsItsCause`: whether a capacity is the right one depends on how the grid of
  the scan lies to the limits of the machine; it is a statement about the grids
  of the instance, and not true of every grid.

## 5. Where code and documents disagree

* **A stop can be lost** (`stress_lost_stop`).  The README promises that load can
  be stopped at any time.  A mode box toggled while the session stops replaces
  the stop in `request.json`; only the 8 s force timer ends the session then,
  without verdict or report.
* **A parent's exit is not recorded** (`stress_parent_exit`).  The test replaces
  the event callback; the real one writes to the pipe of the dead parent, in the
  `finally` clause, before the manifest.
* **Reports of failed modules may be published** (`suite_partial_copy`).  Nothing
  takes back the copies made before a later one failed.
* **A worker's archive can be deleted before the worker ends** (`archive_lost`).
  The writer is taken out of the manifest before the last use of the archive.
* **A faster machine may score less** (`faster_score`).  report_score.py:24-25 and
  59 say that whoever is faster scores 100.  `parse_cpu_float` (514) drops a row
  whose time per operation is not above 0.01 ns as missing: with SIMD multiply-add
  at 120 instead of 40 billion operations a second the row no longer counts, and a
  machine that is slow at addition falls from 80 to 60.

Noticed without a run of its own:

* `generate_report.py` replaces the report an engine has written itself
  (src/report.c:24-46) by what it printed, under the comment that "without this
  redirect the report file would never exist" (221-224): a `[PASS]` leaves a log,
  no table.
* A GPU child that `change()` cannot stop leaves the archive of the session saying
  "stopped", "user_stop": `TimeoutExpired` is not among the exceptions named at
  run_stress.py:259, so neither the failure nor the cause is recorded, although the
  process exits with an error.
* `generate_report.py` also prints "Running without sudo" for a password that was not
  accepted and runs every test with sudo all the same (lines 199-206); with the
  right password a fresh report belongs to root, the script cannot replace it and
  a good run is a `[FAIL]`.  Its exit code ignores the results, and lines 252-1188
  have no caller.
* `python3 report_score.py` without a selection raises `KeyError` 'cpu_architecture'
  (line 662): `PARSERS` (643-652) lacks it, while the usage (27-30) says all modules
  are scored. The reader still looks for "Cache Hierarchy Scan" and ipc columns that
  are no longer written, and `parse_inter_core` uses a CPU number as an index.
* A change of modes credits the RAM of the session even when its threads have not
  taken it yet, and does not credit cache blocks and GPU memory held
  (run_stress.py:158-161): the first lets through more than half, the second turns
  away what would fit.  It credits all the RAM that was asked for while the blocks
  are rounded down (stress_cpu.c:202), so up to a few bytes for each thread pass
  beyond half.
* A sensor worker whose catalog is full raises `KeyError` at telemetry.py:117 for
  a cpufreq policy, and ends; identities are never given back.
* A regression record is lost with the one after it when a crash leaves half a
  line; an improvement beyond the limit fails as well; stale `reports/*.md` are
  recorded as this run's.
* The cache part of an old archive without bandwidth evidence is shown as passed;
  a page restored from one can show the reported cache table twice.
* `--skip-missing` of `test_sanity.py` says that missing reports are failures
  otherwise; they are skipped either way.
* `test_inter_core.c` parses `--bw-iterations` (848-853) and then sets
  `g_bw_iterations` again from the number of CPUs (858-867), so the option has no
  effect; and it ends with success when its report cannot be opened (760).

## 6. What is not modelled

* Kernels and their timing; fetch width, competition and cache readers of the
  architecture probe, whose statistics are dense floating point.
* Report formatting, HTML, charts, Qt widgets, translations: no state others
  rely on.
* Detection of hardware and the parsers of device answers: reads of files,
  registers and vendor libraries.  The launch of the privileged helper by pkexec,
  osascript or UAC.
* Builds and packaging.
* Memory orders weaker than those the pools use; signals that kill the runner
  outright (its engine, in a session of its own, then runs to its end).
* Links, corrupt manifests and the choice of output folder in retention; a crash
  inside `rmtree`, after which the code promises nothing about the remains.
* Malloc failures and the killer of processes when memory is short.

## 7. Plan

Done, in the order of importance: the stress session with its contract; the
ComputeMark gate with its proofs; the inter-core pool; the suite; retention with
its proofs; the elevated monitor and the hardware page with its contract; the
observed pairs, ComputeMark's stages, the capacity scans; score, pages and
regression history; the older command line, the sensor provider and the memory
budget.  Proved: the gate, retention,
the pool, the observed pairs and ComputeMark's stages as far as their readers
accept them, the suite, the hardware page, the stress session with its contract,
the elevated monitor, the older command line, the sensors, the memory budget,
the restored pages and the regression history.

What is left is out of the prover's reach (see section 4) or not modelled (see
section 6).  Of the latter, worth doing next: the fetch and competition readers of
the architecture probe, once their statistics are stated over whole numbers, and
a `rmtree` that can stop anywhere, once the code says what becomes of its remains.
