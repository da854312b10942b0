----------------------------- MODULE WorkerPool -----------------------------
(***************************************************************************)
(* The inter-core benchmark on Linux (src/test_inter_core.c): one pinned   *)
(* worker thread per CPU, and a main thread that lends the workers of each *)
(* ordered pair of CPUs one task at a time.  In a task the two workers     *)
(* flip one shared flag in turns: PING swaps 1 to 0, PONG swaps 0 to 1,    *)
(* each a fixed number of times.                                           *)
(*                                                                         *)
(* The flag is one atomic byte, done_flag and ready_to_run are accessed    *)
(* with acquire and release, everything else is handed over by them or by  *)
(* the worker's mutex: the steps interleave as if memory were sequentially *)
(* consistent.  A compare-and-swap that fails changes nothing and is no    *)
(* step.  A latency task counts its batches in n_samples, a throughput     *)
(* task its swaps in cas_ops: both are `ops` here, one per swap.           *)
(***************************************************************************)
EXTENDS Naturals

CONSTANTS
  N,              \* allowed CPUs
  LatencyRounds,  \* swaps of one worker in a latency task
  WarmRounds,     \* BW_WARMUP_ITERS
  FirstBw,        \* g_bw_iterations before calibration
  BwCap,          \* bw_cap
  BwSamples       \* BW_SAMPLES

\* Of the constants.
PoolAssumption ==
  /\ N \in Nat /\ N >= 2
  /\ {LatencyRounds, WarmRounds, FirstBw, BwSamples} \subseteq Nat \ {0}
  /\ BwCap \in Nat

Workers == 0..(N - 1)

VARIABLES
  pc,        \* where the main thread is
  job,       \* the pair being measured, the matrix, warm-up or not, samples left
  bw, saved, \* g_bw_iterations, and its value during a warm-up
  created,   \* g_created_workers
  joined,    \* workers joined by worker_pool_destroy
  wpc,       \* where each worker is
  asleep,    \* workers in pthread_cond_wait
  pinned,    \* affinity_ok, known once the worker is initialized
  stopping, ready_to_run, done_flag,   \* per worker, as in worker_t
  state, state_role, target_core, ops, \* its task and its result
  flag,      \* cas_flags
  round,     \* history: number of this dispatch
  served     \* history: the dispatch each worker last finished

mainVars == <<pc, job, bw, saved, created, joined>>
taskVars == <<state, state_role, target_core, ops>>
syncVars == <<stopping, ready_to_run, done_flag>>
history  == <<round, served>>
vars == <<mainVars, wpc, asleep, pinned, syncVars, taskVars, flag, history>>

Job(i, j, matrix, warm, left) ==
  [i |-> i, j |-> j, matrix |-> matrix, warm |-> warm, left |-> left]

Init ==
  /\ pc = "create" /\ job = Job(0, 1, "latency", FALSE, 1)
  /\ bw = FirstBw /\ saved = FirstBw /\ created = 0 /\ joined = 0
  /\ wpc = [w \in Workers |-> "none"] /\ asleep = {}
  /\ pinned = [w \in Workers |-> FALSE]
  /\ stopping = [w \in Workers |-> FALSE]
  /\ ready_to_run = [w \in Workers |-> 0] /\ done_flag = [w \in Workers |-> 0]
  /\ state = [w \in Workers |-> "idle"]
  /\ state_role = [w \in Workers |-> "ping"]
  /\ target_core = [w \in Workers |-> 0]
  /\ ops = [w \in Workers |-> 0]
  /\ flag = [w \in Workers |-> 0]
  /\ round = 0 /\ served = [w \in Workers |-> 0]

-----------------------------------------------------------------------------
(* worker_pool_init and worker_pool_destroy.                               *)

Create ==
  /\ pc = "create" /\ created < N
  /\ \/ /\ wpc' = [wpc EXCEPT ![created] = "bind"]
        /\ created' = created + 1 /\ pc' = "created"
     \/ pc' = "destroy" /\ UNCHANGED <<wpc, created>>
  /\ UNCHANGED <<job, bw, saved, joined, asleep, pinned, syncVars, taskVars, flag, history>>

\* The main thread waits until the newest worker has tried to pin itself.
Initialized ==
  /\ pc = "created" /\ wpc[created - 1] # "bind"
  /\ pc' = IF ~pinned[created - 1] THEN "destroy"
           ELSE IF created < N THEN "create" ELSE "prepare"
  /\ UNCHANGED <<job, bw, saved, created, joined, wpc, asleep, pinned, syncVars, taskVars,
                 flag, history>>

\* The matrix and the audit file: either may be refused.
Prepare ==
  /\ pc = "prepare"
  /\ pc' \in {"dispatch", "destroy"}
  /\ UNCHANGED <<job, bw, saved, created, joined, wpc, asleep, pinned, syncVars, taskVars,
                 flag, history>>

\* Worker by worker: the flag, the signal, the join.
Stop ==
  /\ pc = "destroy"
  /\ IF joined = created
     THEN pc' = "freed" /\ UNCHANGED <<stopping, asleep>>
     ELSE /\ pc' = "join"
          /\ stopping' = [stopping EXCEPT ![joined] = TRUE]
          /\ asleep' = asleep \ {joined}
  /\ UNCHANGED <<job, bw, saved, created, joined, wpc, pinned, ready_to_run, done_flag,
                 taskVars, flag, history>>

Join ==
  /\ pc = "join" /\ wpc[joined] = "exited"
  /\ joined' = joined + 1 /\ pc' = "destroy"
  /\ UNCHANGED <<job, bw, saved, created, wpc, asleep, pinned, syncVars, taskVars, flag,
                 history>>

-----------------------------------------------------------------------------
(* dispatch_pair.                                                          *)

Quota(mode) == IF mode = "latency" THEN LatencyRounds ELSE bw

Mode == IF job.matrix = "latency" THEN "latency" ELSE "bandwidth"

\* A warm-up borrows g_bw_iterations.  A pair with a task pending is refused:
\* what the workers hold from the task before is then read as the result.
Dispatch ==
  /\ pc = "dispatch"
  /\ round' = round + 1
  /\ IF job.warm THEN saved' = bw /\ bw' = WarmRounds ELSE UNCHANGED <<saved, bw>>
  /\ IF ready_to_run[job.i] = 1 \/ ready_to_run[job.j] = 1
     THEN pc' = "read" /\ UNCHANGED <<taskVars, flag>>
     ELSE /\ pc' = "wake_i"
          /\ state' = [state EXCEPT ![job.i] = Mode, ![job.j] = Mode]
          /\ target_core' = [target_core EXCEPT ![job.i] = job.j, ![job.j] = job.j]
          /\ state_role' = [state_role EXCEPT ![job.i] = "ping", ![job.j] = "pong"]
          /\ ops' = [ops EXCEPT ![job.i] = 0, ![job.j] = 0]
          /\ flag' = [flag EXCEPT ![job.j] = 1]
  /\ UNCHANGED <<job, created, joined, wpc, asleep, pinned, syncVars, served>>

\* wake_worker: ready_to_run and the signal, under the worker's mutex.
WakeWorker(w) ==
  /\ ready_to_run' = [ready_to_run EXCEPT ![w] = 1]
  /\ asleep' = asleep \ {w}
  /\ UNCHANGED <<job, bw, saved, created, joined, wpc, pinned, stopping, done_flag, taskVars,
                 flag, history>>

WakeI == pc = "wake_i" /\ pc' = "wake_j" /\ WakeWorker(job.i)
WakeJ == pc = "wake_j" /\ pc' = "wait_i" /\ WakeWorker(job.j)

\* wait_for_done: seen and taken back.
WaitForDone(w) ==
  /\ done_flag[w] = 1
  /\ done_flag' = [done_flag EXCEPT ![w] = 0]
  /\ UNCHANGED <<job, bw, saved, created, joined, wpc, asleep, pinned, stopping,
                 ready_to_run, taskVars, flag, history>>

WaitI == pc = "wait_i" /\ pc' = "wait_j" /\ WaitForDone(job.i)
WaitJ == pc = "wait_j" /\ pc' = "read" /\ WaitForDone(job.j)

\* Row by row over the ordered pairs, the diagonal left out.
NextPair(i, j) ==
  LET next == IF j + 1 = i THEN j + 2 ELSE j + 1
  IN  IF next < N THEN <<i, next>> ELSE <<i + 1, 0>>

\* The next pair of a matrix, or what comes after its last pair.
NextCell(matrix, warm, left, after) ==
  LET next == NextPair(job.i, job.j)
  IN  IF job.i = N - 1 /\ job.j = N - 2
      THEN pc' = after /\ job' = Job(0, 1, "calibrate", TRUE, 1)
      ELSE pc' = "dispatch" /\ job' = Job(next[1], next[2], matrix, warm, left)

\* The main thread's program after a dispatch: the latency matrix, the warm-up
\* and the calibration of the first pair, then per pair a warm-up and the samples.
Follow ==
  \/ /\ job.matrix = "latency"
     /\ NextCell("latency", FALSE, 1, "dispatch") /\ UNCHANGED bw
  \/ /\ job.matrix = "calibrate" /\ job.warm
     /\ bw' = saved /\ job' = [job EXCEPT !.warm = FALSE] /\ pc' = "calibrate"
  \/ /\ job.matrix = "calibrate" /\ ~job.warm
     /\ \/ bw' = 2 * bw /\ pc' = "calibrate" /\ UNCHANGED job
        \/ \* slow enough
           /\ pc' = "dispatch" /\ job' = Job(0, 1, "throughput", TRUE, BwSamples)
           /\ UNCHANGED bw
  \/ /\ job.matrix = "throughput" /\ job.warm
     /\ bw' = saved /\ job' = [job EXCEPT !.warm = FALSE] /\ pc' = "dispatch"
  \/ /\ job.matrix = "throughput" /\ ~job.warm /\ UNCHANGED bw
     /\ IF job.left > 1
        THEN pc' = "dispatch" /\ job' = [job EXCEPT !.left = @ - 1]
        ELSE NextCell("throughput", TRUE, BwSamples, "destroy")

\* while (g_bw_iterations < bw_cap)
Calibrate ==
  /\ pc = "calibrate"
  /\ pc' = "dispatch"
  /\ job' = IF bw < BwCap THEN job ELSE Job(0, 1, "throughput", TRUE, BwSamples)
  /\ UNCHANGED <<bw, saved, created, joined, wpc, asleep, pinned, syncVars, taskVars, flag,
                 history>>

\* Only the two matrices are validated.
Complete ==
  CASE job.matrix = "latency" -> ops[job.i] = LatencyRounds
    [] job.matrix = "throughput" /\ ~job.warm -> ops[job.i] + ops[job.j] = 2 * bw
    [] OTHER -> TRUE

\* The result is kept, or the whole run fails: incomplete, not monotonic,
\* without statistics, or not written to the audit file.
Read ==
  /\ pc = "read"
  /\ \/ Complete /\ Follow
     \/ job.matrix # "calibrate" /\ ~job.warm /\ pc' = "destroy" /\ UNCHANGED <<job, bw>>
  /\ UNCHANGED <<saved, created, joined, wpc, asleep, pinned, syncVars, taskVars, flag, history>>

-----------------------------------------------------------------------------
(* worker_main.                                                            *)

Bind(w) ==
  /\ wpc[w] = "bind"
  /\ \E ok \in BOOLEAN :
       /\ pinned' = [pinned EXCEPT ![w] = ok]
       /\ wpc' = [wpc EXCEPT ![w] = IF ok THEN "wait" ELSE "exited"]
  /\ UNCHANGED <<mainVars, asleep, syncVars, taskVars, flag, history>>

\* while (!stopping && !ready_to_run) wait
Wait(w) ==
  /\ wpc[w] = "wait" /\ w \notin asleep
  /\ \/ /\ ~stopping[w] /\ ready_to_run[w] = 0
        /\ asleep' = asleep \cup {w} /\ UNCHANGED wpc
     \/ /\ stopping[w] \/ ready_to_run[w] = 1
        /\ wpc' = [wpc EXCEPT ![w] = IF stopping[w] THEN "exited" ELSE "begin"]
        /\ UNCHANGED asleep
  /\ UNCHANGED <<mainVars, pinned, syncVars, taskVars, flag, history>>

SpuriousWake(w) ==
  /\ w \in asleep
  /\ asleep' = asleep \ {w}
  /\ UNCHANGED <<mainVars, wpc, pinned, syncVars, taskVars, flag, history>>

Begin(w) ==
  /\ wpc[w] = "begin"
  /\ done_flag' = [done_flag EXCEPT ![w] = 0]
  /\ ops' = [ops EXCEPT ![w] = 0]
  /\ wpc' = [wpc EXCEPT ![w] = "task"]
  /\ UNCHANGED <<mainVars, asleep, pinned, stopping, ready_to_run, state, state_role,
                 target_core, flag, history>>

\* A successful compare-and-swap of the shared flag.
Swap(w) ==
  LET old == IF state_role[w] = "ping" THEN 1 ELSE 0
  IN  /\ wpc[w] = "task" /\ ops[w] < Quota(state[w])
      /\ flag[target_core[w]] = old
      /\ flag' = [flag EXCEPT ![target_core[w]] = 1 - old]
      /\ ops' = [ops EXCEPT ![w] = @ + 1]
      /\ UNCHANGED <<mainVars, wpc, asleep, pinned, syncVars, state, state_role, target_core,
                     history>>

\* Mutant: completion is published first.
EndTaskEarly(w) ==
  \/ /\ wpc[w] = "task" /\ ops[w] = Quota(state[w])
     /\ done_flag' = [done_flag EXCEPT ![w] = 1]
     /\ wpc' = [wpc EXCEPT ![w] = "publish"] /\ served' = [served EXCEPT ![w] = round]
     /\ UNCHANGED <<mainVars, asleep, pinned, stopping, ready_to_run, taskVars, flag, round>>
  \/ /\ wpc[w] = "publish"
     /\ ready_to_run' = [ready_to_run EXCEPT ![w] = 0]
     /\ wpc' = [wpc EXCEPT ![w] = "wait"]
     /\ UNCHANGED <<mainVars, asleep, pinned, stopping, done_flag, taskVars, flag, history>>

\* The end of a task: ready_to_run is cleared, then completion is published.
EndTask(w) ==
  \/ /\ wpc[w] = "task" /\ ops[w] = Quota(state[w])
     /\ ready_to_run' = [ready_to_run EXCEPT ![w] = 0]
     /\ wpc' = [wpc EXCEPT ![w] = "publish"] /\ served' = [served EXCEPT ![w] = round]
     /\ UNCHANGED <<mainVars, asleep, pinned, stopping, done_flag, taskVars, flag, round>>
  \/ /\ wpc[w] = "publish"
     /\ done_flag' = [done_flag EXCEPT ![w] = 1]
     /\ wpc' = [wpc EXCEPT ![w] = "wait"]
     /\ UNCHANGED <<mainVars, asleep, pinned, stopping, ready_to_run, taskVars, flag, history>>

-----------------------------------------------------------------------------
MainThread == \/ Create \/ Initialized \/ Prepare \/ Dispatch \/ WakeI \/ WakeJ
              \/ WaitI \/ WaitJ \/ Read \/ Calibrate \/ Stop \/ Join

Worker(w) == Bind(w) \/ Wait(w) \/ Begin(w) \/ Swap(w) \/ EndTask(w)

Freed == pc = "freed" /\ UNCHANGED vars

Next == MainThread \/ (\E w \in Workers : Worker(w) \/ SpuriousWake(w)) \/ Freed

Spec == Init /\ [][Next]_vars

\* The kernel runs the main thread and every worker: each has a CPU.
FairSpec == Spec /\ WF_vars(MainThread) /\ \A w \in Workers : WF_vars(Worker(w))

-----------------------------------------------------------------------------
(* Properties.                                                             *)

TypeOK ==
  /\ pc \in {"create", "created", "prepare", "dispatch", "wake_i", "wake_j", "wait_i",
             "wait_j", "read", "calibrate", "destroy", "join", "freed"}
  /\ job \in [i : Workers, j : Workers, matrix : {"latency", "calibrate", "throughput"},
              warm : BOOLEAN, left : 1..BwSamples]
  /\ job.i # job.j
  /\ bw \in Nat /\ saved \in Nat
  /\ created \in 0..N /\ joined \in 0..created
  /\ wpc \in [Workers -> {"none", "bind", "wait", "begin", "task", "publish", "exited"}]
  /\ asleep \in SUBSET Workers
  /\ pinned \in [Workers -> BOOLEAN] /\ stopping \in [Workers -> BOOLEAN]
  /\ ready_to_run \in [Workers -> {0, 1}] /\ done_flag \in [Workers -> {0, 1}]
  /\ state \in [Workers -> {"idle", "latency", "bandwidth"}]
  /\ state_role \in [Workers -> {"ping", "pong"}]
  /\ target_core \in [Workers -> Workers]
  /\ ops \in [Workers -> Nat]
  /\ flag \in [Workers -> {0, 1}]
  /\ round \in Nat /\ served \in [Workers -> Nat]

Lent == pc \in {"wake_j", "wait_i", "wait_j"}
Working(w) == wpc[w] \in {"begin", "task", "publish"}

\* Only the workers of the dispatched pair ever work, and none while the main
\* thread prepares a task or reads a result: what the two exchange through plain
\* variables is never read and written at once.
LentToOnePair ==
  \A w \in Workers : Working(w) => Lent /\ w \in {job.i, job.j}

\* The two sides of a pair take turns: PING is at most one swap ahead, and the
\* flag says whose turn it is.
TurnsAlternate ==
  pc = "wake_i" \/ Lent =>
    /\ ops[job.i] \in {ops[job.j], ops[job.j] + 1}
    /\ flag[job.j] = IF ops[job.i] = ops[job.j] THEN 1 ELSE 0

\* What the main thread reads was produced for this dispatch, by both workers
\* in full: no dispatch is refused, no earlier result is taken for it.
FreshResult ==
  pc = "read" =>
    /\ served[job.i] = round /\ served[job.j] = round
    /\ ops[job.i] = Quota(Mode) /\ ops[job.j] = Quota(Mode)

\* The worker structures and flags are freed after the last thread that could
\* touch them, whatever failed and when.
NothingAfterFree ==
  pc = "freed" => \A w \in Workers : wpc[w] \in {"none", "exited"}

\* The shared variables of main thread and workers need no lock: at every moment
\* they belong to one side, from creation to destruction (dispatch_pair,
\* worker_main, worker_pool_destroy).
PoolIsSound == TypeOK /\ LentToOnePair /\ TurnsAlternate /\ FreshResult /\ NothingAfterFree

\* No lost wake-up and no pair that spins for ever: the run always ends.
Terminates == <>(pc = "freed")
=============================================================================
