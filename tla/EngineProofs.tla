---------------------------- MODULE EngineProofs -----------------------------
(***************************************************************************)
(* The engines that measure with threads of their own: the inter-core      *)
(* pool, the observed core pairs and the stages of ComputeMark, each for   *)
(* any number of CPUs, rounds and samples.                                 *)
(***************************************************************************)
EXTENDS MCEvidence, FiniteSetTheorems, TLAPS

-----------------------------------------------------------------------------
(***************************************************************************)
(* The inter-core pool.  Which side may touch a worker's plain variables   *)
(* is written nowhere in the code; the invariant says it: a worker is lent *)
(* from the moment it is woken until its completion has been taken back,   *)
(* and how far it has come can be read off ready_to_run, done_flag and its *)
(* place.                                                                  *)
(***************************************************************************)
Pair == {job.i, job.j}

\* The workers lent: woken, and their completion not yet taken back.
Borrowed ==
  CASE pc = "wake_j" -> {job.i}
    [] pc = "wait_i" -> Pair
    [] pc = "wait_j" -> {job.j}
    [] OTHER -> {}

\* A worker that touches no task: not created, binding, waiting, gone.
Away(w) == wpc[w] \in {"none", "bind", "wait", "exited"}

\* What a worker holds when all of this dispatch's task is done.
Served(w) == served[w] = round /\ ops[w] = Quota(Mode)

Resting(w) == Away(w) /\ ready_to_run[w] = 0 /\ done_flag[w] = 0

\* A lent worker: not yet begun, swapping, about to publish, published.
Serving(w) ==
  \/ /\ wpc[w] = "begin" \/ Away(w)
     /\ ready_to_run[w] = 1 /\ done_flag[w] = 0 /\ ops[w] = 0
  \/ wpc[w] = "task" /\ ready_to_run[w] = 1 /\ done_flag[w] = 0 /\ ops[w] <= Quota(Mode)
  \/ wpc[w] = "publish" /\ ready_to_run[w] = 0 /\ done_flag[w] = 0 /\ Served(w)
  \/ Away(w) /\ ready_to_run[w] = 0 /\ done_flag[w] = 1 /\ Served(w)

Handover == \A w \in Workers : IF w \in Borrowed THEN Serving(w) ELSE Resting(w)

\* The task the two sides of a dispatched pair work on, and what the side not
\* lent yet, or not any more, has counted.
Task ==
  pc = "wake_i" \/ Lent =>
    /\ state[job.i] = Mode /\ state[job.j] = Mode
    /\ state_role[job.i] = "ping" /\ state_role[job.j] = "pong"
    /\ target_core[job.i] = job.j /\ target_core[job.j] = job.j
    /\ pc = "wake_i" => ops[job.i] = 0
    /\ pc \in {"wake_i", "wake_j"} => ops[job.j] = 0
    /\ pc = "wait_j" => Served(job.i)

\* PoolThreads exist up to `created`, and are gone up to `joined`.
PoolThreads ==
  /\ \A w \in Workers : w >= created => wpc[w] = "none"
  /\ \A w \in Workers : w < joined => wpc[w] = "exited"
  /\ pc = "join" => joined < created
  /\ pc = "freed" => joined = created

PoolInv == TypeOK /\ Handover /\ Task /\ PoolThreads /\ TurnsAlternate /\ FreshResult

-----------------------------------------------------------------------------
(* The program of the main thread stays within its types.                  *)

LEMMA Constants ==
  ASSUME PoolAssumption
  PROVE  /\ N \in Nat /\ N >= 2 /\ 0 \in Workers /\ 1 \in Workers
         /\ LatencyRounds \in Nat /\ WarmRounds \in Nat /\ FirstBw \in Nat
         /\ 1 \in 1..BwSamples /\ BwSamples \in 1..BwSamples
<1>1. LatencyRounds \in Nat \ {0} /\ WarmRounds \in Nat \ {0} /\ FirstBw \in Nat \ {0} /\ BwSamples \in Nat \ {0}
  BY DEF PoolAssumption
<1>. QED
  BY <1>1 DEF PoolAssumption, Workers

JobType == [i : Workers, j : Workers, matrix : {"latency", "calibrate", "throughput"},
            warm : BOOLEAN, left : 1..BwSamples]

LEMMA FirstPairType ==
  ASSUME PoolAssumption, NEW matrix \in {"latency", "calibrate", "throughput"},
         NEW warm \in BOOLEAN, NEW left \in 1..BwSamples
  PROVE  Job(0, 1, matrix, warm, left) \in JobType /\ Job(0, 1, matrix, warm, left).i # Job(0, 1, matrix, warm, left).j
  BY Constants DEF Job, JobType

LEMMA QuotaType ==
  ASSUME PoolAssumption, TypeOK, NEW mode PROVE Quota(mode) \in Nat
  BY Constants DEF TypeOK, Quota

\* Row by row, without the diagonal, and never past the last pair.
LEMMA NextPairType ==
  ASSUME PoolAssumption, NEW i \in Workers, NEW j \in Workers, i # j,
         ~(i = N - 1 /\ j = N - 2)
  PROVE  LET next == NextPair(i, j)
         IN  next[1] \in Workers /\ next[2] \in Workers /\ next[1] # next[2]
<1>. USE DEF PoolAssumption, Workers, NextPair
<1>1. CASE j + 1 = i
  <2>1. j + 2 < N \/ i = N - 1
    BY <1>1
  <2>. QED
    BY <1>1, <2>1
<1>2. CASE j + 1 # i
  BY <1>2
<1>. QED
  BY <1>1, <1>2

LEMMA NextCellType ==
  ASSUME PoolAssumption, TypeOK, NEW matrix \in {"latency", "throughput"}, NEW warm \in BOOLEAN,
         NEW left \in 1..BwSamples, NEW after \in {"dispatch", "destroy"},
         NextCell(matrix, warm, left, after)
  PROVE  /\ pc' \in {"dispatch", "destroy"}
         /\ job' \in JobType /\ job'.i # job'.j
<1>1. CASE job.i = N - 1 /\ job.j = N - 2
  BY <1>1, FirstPairType, Constants DEF NextCell
<1>2. CASE ~(job.i = N - 1 /\ job.j = N - 2)
  <2>1. job.i \in Workers /\ job.j \in Workers /\ job.i # job.j
    BY DEF TypeOK
  <2>2. LET next == NextPair(job.i, job.j)
        IN  next[1] \in Workers /\ next[2] \in Workers /\ next[1] # next[2]
    BY <1>2, <2>1, NextPairType
  <2>. QED
    BY <1>2, <2>2 DEF NextCell, Job, JobType
<1>. QED
  BY <1>1, <1>2

\* What follows a result is the next dispatch, the calibration or the end.
LEMMA FollowType ==
  ASSUME PoolAssumption, TypeOK, Follow
  PROVE  /\ pc' \in {"dispatch", "calibrate", "destroy"}
         /\ job' \in JobType /\ job'.i # job'.j
         /\ bw' \in Nat
<1>1. CASE job.matrix = "latency" /\ NextCell("latency", FALSE, 1, "dispatch") /\ UNCHANGED bw
  BY <1>1, Constants, NextCellType DEF TypeOK
<1>2. CASE bw' = saved /\ job' = [job EXCEPT !.warm = FALSE] /\ pc' \in {"calibrate", "dispatch"}
  BY <1>2 DEF TypeOK, JobType
<1>3. CASE bw' = 2 * bw /\ pc' = "calibrate" /\ UNCHANGED job
  BY <1>3 DEF TypeOK, JobType
<1>4. CASE pc' = "dispatch" /\ job' = Job(0, 1, "throughput", TRUE, BwSamples) /\ UNCHANGED bw
  BY <1>4, FirstPairType, Constants DEF TypeOK
<1>5. CASE job.left > 1 /\ pc' = "dispatch" /\ job' = [job EXCEPT !.left = @ - 1] /\ UNCHANGED bw
  <2>1. job.left - 1 \in 1..BwSamples
    BY <1>5, Constants DEF TypeOK
  <2>. QED
    BY <1>5, <2>1 DEF TypeOK, JobType
<1>6. CASE NextCell("throughput", TRUE, BwSamples, "destroy") /\ UNCHANGED bw
  BY <1>6, Constants, NextCellType DEF TypeOK
<1>. QED
  BY <1>1, <1>2, <1>3, <1>4, <1>5, <1>6 DEF Follow

-----------------------------------------------------------------------------
\* Before the first worker is created nothing is lent.
LEMMA PoolStart == ASSUME PoolAssumption, Init PROVE PoolInv
<1>1. TypeOK
  <2>1. job \in JobType /\ job.i # job.j
    BY FirstPairType, Constants DEF Init
  <2>. QED
    <3>1. created \in 0..N /\ joined \in 0..created /\ bw \in Nat /\ saved \in Nat /\ round \in Nat
      BY Constants DEF Init
    <3>. QED
      BY <2>1, <3>1, Constants DEF Init, TypeOK, JobType
<1>2. Handover
  BY DEF Init, Handover, Borrowed, Resting, Away
<1>3. Task /\ PoolThreads /\ TurnsAlternate /\ FreshResult
  BY Constants DEF Init, Task, Lent, PoolThreads, TurnsAlternate, FreshResult, Workers
<1>. QED
  BY <1>1, <1>2, <1>3 DEF PoolInv

\* Steps of the main thread that lend nothing and read nothing.
Aside == Create \/ Initialized \/ Prepare \/ Stop \/ Join \/ Calibrate \/ Read

LEMMA AsideStep == ASSUME PoolAssumption, PoolInv, Aside PROVE PoolInv'
<1>. USE DEF PoolInv
<1>1. /\ pc \notin {"wake_i", "wake_j", "wait_i", "wait_j"}
      /\ pc' \in {"created", "create", "destroy", "prepare", "dispatch", "freed", "join", "calibrate"}
      /\ UNCHANGED <<ready_to_run, done_flag, served, round>>
  <2>1. CASE Read
    BY <2>1, FollowType DEF Read, syncVars, history
  <2>. QED
    BY <2>1 DEF Aside, Create, Initialized, Prepare, Stop, Join, Calibrate, syncVars, history
<1>2. Borrowed = {} /\ Borrowed' = {} /\ ~Lent'
  BY <1>1 DEF Borrowed, Lent
<1>3. TypeOK'
  <2>1. CASE Create
    <3>1. created' \in 0..N /\ joined \in 0..created'
      BY <2>1, Constants DEF TypeOK, Create
    <3>. QED
      BY <2>1, <3>1 DEF TypeOK, Create, taskVars, syncVars, history
  <2>2. CASE Initialized \/ Prepare
    BY <2>2 DEF TypeOK, Initialized, Prepare, taskVars, syncVars, history
  <2>3. CASE Stop
    BY <2>3 DEF TypeOK, Stop, taskVars, syncVars, history
  <2>4. CASE Join
    <3>1. joined' \in 0..created'
      BY <2>4, Constants DEF TypeOK, Join, PoolThreads
    <3>. QED
      BY <2>4, <3>1 DEF TypeOK, Join, taskVars, syncVars, history
  <2>5. CASE Calibrate
    <3>1. job' \in JobType /\ job'.i # job'.j
      BY <2>5, FirstPairType, Constants DEF TypeOK, Calibrate, JobType
    <3>. QED
      BY <2>5, <3>1 DEF TypeOK, Calibrate, taskVars, syncVars, history, JobType
  <2>6. CASE Read
    <3>1. job' \in JobType /\ job'.i # job'.j /\ bw' \in Nat
      BY <2>6, FollowType DEF TypeOK, Read, JobType
    <3>. QED
      BY <1>1, <2>6, <3>1 DEF TypeOK, Read, taskVars, syncVars, history, JobType
  <2>. QED
    BY <2>1, <2>2, <2>3, <2>4, <2>5, <2>6 DEF Aside
<1>4. Handover'
  <2>1. \A w \in Workers : wpc[w] \in {"none", "bind", "wait", "exited"}
    BY <1>2 DEF Handover, Resting, Away
  <2>2. \A w \in Workers : wpc'[w] \in {"none", "bind", "wait", "exited"}
    <3>1. CASE Create
      BY <2>1, <3>1 DEF Create, TypeOK
    <3>. QED
      BY <2>1, <3>1 DEF Aside, Initialized, Prepare, Stop, Join, Calibrate, Read
  <2>. QED
    BY <1>1, <1>2, <2>2 DEF Handover, Resting, Away
<1>5. PoolThreads'
  <2>1. CASE Create
    BY <2>1, Constants DEF PoolThreads, Create, TypeOK, Workers
  <2>2. CASE Join
    BY <2>2 DEF PoolThreads, Join, TypeOK, Workers
  <2>3. CASE Stop
    BY <2>3 DEF PoolThreads, Stop, TypeOK
  <2>4. CASE Initialized \/ Prepare \/ Calibrate \/ Read
    <3>1. UNCHANGED <<wpc, created, joined>> /\ pc' \notin {"join", "freed"}
      <4>1. CASE Read
        BY <4>1, FollowType DEF Read
      <4>. QED
        BY <2>4, <4>1 DEF Initialized, Prepare, Calibrate
    <3>. QED
      BY <3>1 DEF PoolThreads
  <2>. QED
    BY <1>1, <2>1, <2>2, <2>3, <2>4 DEF Aside
<1>6. Task' /\ TurnsAlternate' /\ FreshResult'
  BY <1>1, <1>2 DEF Task, TurnsAlternate, FreshResult
<1>. QED
  BY <1>3, <1>4, <1>5, <1>6

-----------------------------------------------------------------------------
\* Two workers of one pair are lent: what the invariant says of each.
LEMMA DispatchStep == ASSUME PoolAssumption, PoolInv, Dispatch PROVE PoolInv'
<1>. USE DEF PoolInv
<1>1. /\ pc = "dispatch" /\ pc' = "wake_i" /\ round' = round + 1
      /\ UNCHANGED <<job, created, joined, wpc, asleep, pinned, syncVars, served>>
      /\ \A w \in Workers : Resting(w)
      /\ job.i \in Workers /\ job.j \in Workers /\ job.i # job.j
  BY DEF Dispatch, Handover, Borrowed, TypeOK, Resting
<1>2. /\ state' = [state EXCEPT ![job.i] = Mode, ![job.j] = Mode]
      /\ target_core' = [target_core EXCEPT ![job.i] = job.j, ![job.j] = job.j]
      /\ state_role' = [state_role EXCEPT ![job.i] = "ping", ![job.j] = "pong"]
      /\ ops' = [ops EXCEPT ![job.i] = 0, ![job.j] = 0]
      /\ flag' = [flag EXCEPT ![job.j] = 1]
  BY <1>1 DEF Dispatch, Resting
<1>3. bw' \in Nat /\ saved' \in Nat
  BY Constants DEF Dispatch, TypeOK
<1>4. Mode' = Mode /\ Mode \in {"latency", "bandwidth"}
  BY <1>1 DEF Mode
<1>5. TypeOK'
  BY <1>1, <1>2, <1>3, <1>4 DEF TypeOK, syncVars
<1>6. Handover'
  BY <1>1 DEF Handover, Borrowed, Resting, Away, syncVars
<1>7. Task' /\ TurnsAlternate'
  BY <1>1, <1>2, <1>4 DEF Task, TurnsAlternate, TypeOK
<1>8. PoolThreads' /\ FreshResult'
  BY <1>1 DEF PoolThreads, FreshResult
<1>. QED
  BY <1>5, <1>6, <1>7, <1>8

\* The main thread wakes a worker and takes its completion back.
Exchange == WakeI \/ WakeJ \/ WaitI \/ WaitJ

LEMMA ExchangeStep == ASSUME PoolAssumption, PoolInv, Exchange PROVE PoolInv'
<1>. USE DEF PoolInv
<1>1. /\ pc \in {"wake_i", "wake_j", "wait_i", "wait_j"}
      /\ pc' \in {"wake_j", "wait_i", "wait_j", "read"}
      /\ UNCHANGED <<job, bw, saved, created, joined, wpc, pinned, stopping, taskVars, flag, history>>
  BY DEF Exchange, WakeI, WakeJ, WaitI, WaitJ, WakeWorker, WaitForDone
<1>2. /\ job.i \in Workers /\ job.j \in Workers /\ job.i # job.j
      /\ Quota(Mode) \in Nat
  BY QuotaType DEF TypeOK
<1>3. UNCHANGED <<Mode, Quota(Mode)>> /\ \A w \in Workers : Away(w)' = Away(w) /\ Served(w)' = Served(w)
  BY <1>1 DEF Mode, Quota, Away, Served, taskVars, history
<1>4. TypeOK'
  <2>1. ready_to_run' \in [Workers -> {0, 1}] /\ done_flag' \in [Workers -> {0, 1}] /\ asleep' \in SUBSET Workers
    BY DEF Exchange, WakeI, WakeJ, WaitI, WaitJ, WakeWorker, WaitForDone, TypeOK
  <2>. QED
    BY <1>1, <2>1 DEF TypeOK, taskVars, history
<1>5. CASE WakeI
  <2>1. /\ pc = "wake_i" /\ pc' = "wake_j" /\ done_flag' = done_flag
        /\ ready_to_run' = [ready_to_run EXCEPT ![job.i] = 1]
        /\ \A w \in Workers : Resting(w)
        /\ ops[job.i] = 0
    BY <1>5 DEF WakeI, WakeWorker, Handover, Borrowed, Task
  <2>2. Handover'
    BY <1>1, <1>2, <1>3, <2>1 DEF Handover, Borrowed, Resting, Serving, taskVars, TypeOK
  <2>3. Task'
    BY <1>1, <1>3, <2>1 DEF Task, taskVars
  <2>. QED
    BY <1>1, <1>4, <2>1, <2>2, <2>3 DEF Lent, PoolThreads, TurnsAlternate, FreshResult, taskVars
<1>6. CASE WakeJ
  <2>1. /\ pc = "wake_j" /\ pc' = "wait_i" /\ done_flag' = done_flag
        /\ ready_to_run' = [ready_to_run EXCEPT ![job.j] = 1]
        /\ \A w \in Workers : IF w = job.i THEN Serving(w) ELSE Resting(w)
        /\ ops[job.j] = 0
    BY <1>6 DEF WakeJ, WakeWorker, Handover, Borrowed, Task, Lent
  <2>2. Handover'
    BY <1>1, <1>2, <1>3, <2>1 DEF Handover, Borrowed, Pair, Resting, Serving, taskVars, TypeOK
  <2>. QED
    BY <1>1, <1>3, <1>4, <2>1, <2>2 DEF Task, Lent, PoolThreads, TurnsAlternate, FreshResult, taskVars
<1>7. CASE WaitI
  <2>1. /\ pc = "wait_i" /\ pc' = "wait_j" /\ ready_to_run' = ready_to_run
        /\ done_flag[job.i] = 1 /\ done_flag' = [done_flag EXCEPT ![job.i] = 0]
        /\ \A w \in Workers : IF w \in Pair THEN Serving(w) ELSE Resting(w)
    BY <1>7 DEF WaitI, WaitForDone, Handover, Borrowed
  <2>2. Away(job.i) /\ ready_to_run[job.i] = 0 /\ Served(job.i)
    BY <1>2, <2>1 DEF Serving, Pair
  <2>3. Handover'
    BY <1>1, <1>2, <1>3, <2>1, <2>2 DEF Handover, Borrowed, Pair, Resting, Serving, taskVars, TypeOK
  <2>. QED
    BY <1>1, <1>2, <1>3, <1>4, <2>1, <2>2, <2>3 DEF Task, Lent, PoolThreads, TurnsAlternate, FreshResult, taskVars
<1>8. CASE WaitJ
  <2>1. /\ pc = "wait_j" /\ pc' = "read" /\ ready_to_run' = ready_to_run
        /\ done_flag[job.j] = 1 /\ done_flag' = [done_flag EXCEPT ![job.j] = 0]
        /\ \A w \in Workers : IF w = job.j THEN Serving(w) ELSE Resting(w)
        /\ Served(job.i)
    BY <1>8 DEF WaitJ, WaitForDone, Handover, Borrowed, Task, Lent
  <2>2. Away(job.j) /\ ready_to_run[job.j] = 0 /\ Served(job.j)
    BY <1>2, <2>1 DEF Serving
  <2>3. Handover'
    BY <1>1, <1>2, <1>3, <2>1, <2>2 DEF Handover, Borrowed, Resting, TypeOK
  <2>4. FreshResult'
    BY <1>1, <1>2, <1>3, <2>1, <2>2 DEF FreshResult, Served
  <2>. QED
    BY <1>1, <1>4, <2>1, <2>3, <2>4 DEF Task, Lent, PoolThreads, TurnsAlternate
<1>. QED
  BY <1>5, <1>6, <1>7, <1>8 DEF Exchange

-----------------------------------------------------------------------------
\* A worker's step changes its own place, flags and count; of the main thread's
\* variables it changes none.
Own(w) == Bind(w) \/ Wait(w) \/ SpuriousWake(w) \/ Begin(w) \/ Swap(w) \/ EndTask(w)

LEMMA OwnType == ASSUME PoolAssumption, TypeOK, NEW w \in Workers, Own(w) PROVE TypeOK'
<1>1. CASE Bind(w) \/ Wait(w) \/ SpuriousWake(w)
  BY <1>1 DEF TypeOK, Bind, Wait, SpuriousWake, mainVars, syncVars, taskVars, history
<1>2. CASE Begin(w) \/ Swap(w)
  BY <1>2 DEF TypeOK, Begin, Swap, mainVars, syncVars, taskVars, history
<1>3. CASE EndTask(w)
  BY <1>3 DEF TypeOK, EndTask, mainVars, syncVars, taskVars, history
<1>. QED
  BY <1>1, <1>2, <1>3 DEF Own

\* PoolThreads only leave or move on, so the counts of the main thread stay true.
LEMMA OwnThreads == ASSUME TypeOK, PoolThreads, NEW w \in Workers, Own(w) PROVE PoolThreads'
<1>1. UNCHANGED <<pc, created, joined>>
  BY DEF Own, Bind, Wait, SpuriousWake, Begin, Swap, EndTask, mainVars
<1>2. \/ UNCHANGED wpc
      \/ wpc[w] \notin {"none", "exited"} /\ \E place : wpc' = [wpc EXCEPT ![w] = place]
  BY DEF Own, Bind, Wait, SpuriousWake, Begin, Swap, EndTask
<1>. QED
  BY <1>1, <1>2 DEF PoolThreads, TypeOK

\* What a worker does while no task is in its hands is nobody else's concern.
Loiter(w) == Bind(w) \/ Wait(w)

LEMMA LoiterStep == ASSUME PoolAssumption, PoolInv, NEW w \in Workers, Loiter(w) PROVE PoolInv'
<1>. USE DEF PoolInv
<1>1. /\ UNCHANGED <<mainVars, syncVars, taskVars, flag, history>>
      /\ \A v \in Workers : v # w => wpc'[v] = wpc[v]
      /\ Away(w)
      /\ Away(w)' \/ (wpc'[w] = "begin" /\ (stopping[w] \/ ready_to_run[w] = 1))
  BY DEF Loiter, Bind, Wait, Away, TypeOK
<1>2. TypeOK' /\ PoolThreads'
  BY OwnType, OwnThreads DEF Loiter, Own
<1>3. Handover'
  <2>1. Away(w)' \/ (wpc'[w] = "begin" /\ ready_to_run[w] = 1)
    BY DEF Loiter, Bind, Wait, Away, TypeOK
  <2>2. Borrowed' = Borrowed
    BY <1>1 DEF Borrowed, Pair, mainVars
  <2>3. Quota(Mode)' = Quota(Mode)
    BY <1>1 DEF Quota, Mode, mainVars
  <2>. QED
    BY <1>1, <2>1, <2>2, <2>3 DEF Handover, Serving, Resting, Served, Away, mainVars, syncVars, taskVars, history
<1>4. Task' /\ TurnsAlternate' /\ FreshResult'
  BY <1>1 DEF Task, Lent, Mode, Served, Quota, TurnsAlternate, FreshResult, mainVars, taskVars, history
<1>. QED
  BY <1>2, <1>3, <1>4

\* Taking up, advancing and ending a task.
LEMMA LentToServe ==
  ASSUME TypeOK, Handover, NEW w \in Workers, wpc[w] \in {"begin", "task", "publish"}
  PROVE  w \in Borrowed /\ Serving(w) /\ Lent /\ w \in Pair
  BY DEF Handover, Resting, Away, Borrowed, Lent, Pair

LEMMA BeginStep == ASSUME PoolAssumption, PoolInv, NEW w \in Workers, Begin(w) PROVE PoolInv'
<1>. USE DEF PoolInv
<1>1. /\ w \in Borrowed /\ Lent /\ w \in Pair
      /\ ready_to_run[w] = 1 /\ done_flag[w] = 0 /\ ops[w] = 0
  BY LentToServe DEF Begin, Serving, Away
<1>2. /\ done_flag' = done_flag /\ ops' = ops /\ wpc' = [wpc EXCEPT ![w] = "task"]
      /\ UNCHANGED <<mainVars, stopping, ready_to_run, state, state_role, target_core, flag, history>>
  BY <1>1 DEF Begin, TypeOK
<1>3. TypeOK' /\ PoolThreads'
  BY OwnType, OwnThreads DEF Own
<1>4. /\ Borrowed' = Borrowed /\ Mode' = Mode /\ Quota(Mode)' = Quota(Mode) /\ Quota(Mode) \in Nat
      /\ \A v \in Workers : Served(v)' = Served(v)
  BY <1>2, QuotaType DEF Borrowed, Pair, Mode, Quota, Served, mainVars, history
<1>5. Handover'
  BY <1>1, <1>2, <1>4 DEF Handover, Serving, Resting, Away, TypeOK
<1>6. Task' /\ TurnsAlternate' /\ FreshResult'
  BY <1>1, <1>2, <1>4 DEF Task, Lent, TurnsAlternate, FreshResult, TypeOK, mainVars, history
<1>. QED
  BY <1>3, <1>5, <1>6

LEMMA SwapStep == ASSUME PoolAssumption, PoolInv, NEW w \in Workers, Swap(w) PROVE PoolInv'
<1>. USE DEF PoolInv
<1>1. /\ w \in Borrowed /\ Lent /\ w \in Pair /\ pc # "wake_i" /\ pc # "read"
      /\ wpc[w] = "task" /\ ready_to_run[w] = 1 /\ done_flag[w] = 0
  BY LentToServe DEF Swap, Serving, Away, Lent
<1>2. /\ job.i \in Workers /\ job.j \in Workers /\ job.i # job.j
      /\ state[w] = Mode /\ target_core[w] = job.j
      /\ state_role[w] = IF w = job.i THEN "ping" ELSE "pong"
  BY <1>1 DEF Task, Pair, TypeOK
<1>3. /\ ops[w] < Quota(Mode) /\ Quota(Mode) \in Nat /\ ops[w] \in Nat
      /\ ops' = [ops EXCEPT ![w] = ops[w] + 1]
      /\ UNCHANGED <<mainVars, wpc, syncVars, state, state_role, target_core, history>>
      /\ flag[job.j] = IF w = job.i THEN 1 ELSE 0
      /\ flag' = [flag EXCEPT ![job.j] = IF w = job.i THEN 0 ELSE 1]
  <2>1. ops[w] \in Nat /\ ops[w] < Quota(Mode) /\ Quota(Mode) \in Nat
    BY <1>2, QuotaType DEF Swap, TypeOK
  <2>2. flag[job.j] \in {0, 1} /\ 1 - 1 = 0 /\ 1 - 0 = 1
    BY <1>2 DEF TypeOK
  <2>. QED
    BY <1>2, <2>1, <2>2 DEF Swap
<1>4. TypeOK' /\ PoolThreads'
  BY OwnType, OwnThreads DEF Own
<1>5. Borrowed' = Borrowed /\ Mode' = Mode /\ Quota(Mode)' = Quota(Mode)
  BY <1>3 DEF Borrowed, Pair, Mode, Quota, mainVars
<1>6. \A v \in Workers : v # w => ops'[v] = ops[v] /\ Served(v)' = Served(v)
  BY <1>3, <1>5 DEF Served, TypeOK, history
<1>7. Handover'
  BY <1>1, <1>3, <1>5, <1>6 DEF Handover, Serving, Resting, Away, TypeOK, syncVars
<1>8. Task'
  <2>1. pc = "wake_j" => w = job.i
    BY <1>1 DEF Borrowed
  <2>2. pc = "wait_j" => w = job.j
    BY <1>1 DEF Borrowed
  <2>. QED
    BY <1>1, <1>2, <1>3, <1>5, <1>6, <2>1, <2>2 DEF Task, Lent, mainVars
<1>9. TurnsAlternate'
  BY <1>1, <1>2, <1>3, <1>6 DEF TurnsAlternate, Lent, Pair, TypeOK, mainVars
<1>10. FreshResult'
  BY <1>1, <1>3 DEF FreshResult, mainVars
<1>. QED
  BY <1>4, <1>7, <1>8, <1>9, <1>10

LEMMA EndTaskStep == ASSUME PoolAssumption, PoolInv, NEW w \in Workers, EndTask(w) PROVE PoolInv'
<1>. USE DEF PoolInv
<1>1. /\ w \in Borrowed /\ Lent /\ w \in Pair /\ pc # "read" /\ Serving(w)
      /\ wpc[w] \in {"task", "publish"}
  BY LentToServe DEF EndTask, Lent
<1>2. /\ UNCHANGED <<mainVars, stopping, taskVars, flag, round>>
      /\ state[w] = Mode
  BY <1>1 DEF EndTask, Task, Pair, history
<1>3. TypeOK' /\ PoolThreads'
  BY OwnType, OwnThreads DEF Own
<1>4. /\ Borrowed' = Borrowed /\ Mode' = Mode /\ Quota(Mode)' = Quota(Mode)
      /\ \A v \in Workers : v # w => served'[v] = served[v]
      /\ Served(w) => Served(w)'
  BY <1>2 DEF EndTask, TypeOK, Borrowed, Pair, Mode, Quota, Served, mainVars, taskVars, history
<1>5. Handover'
  <2>1. Serving(w)'
    BY <1>1, <1>2, <1>4 DEF EndTask, Serving, Served, Away, TypeOK, taskVars, history
  <2>2. \A v \in Workers : v # w => /\ wpc'[v] = wpc[v] /\ ready_to_run'[v] = ready_to_run[v]
                                    /\ done_flag'[v] = done_flag[v] /\ ops'[v] = ops[v]
                                    /\ Served(v)' = Served(v)
    BY <1>2, <1>4 DEF EndTask, TypeOK, Served, taskVars, history
  <2>. QED
    BY <1>1, <1>4, <2>1, <2>2 DEF Handover, Serving, Resting, Away
<1>6. Task' /\ TurnsAlternate' /\ FreshResult'
  <2>1. pc = "wait_j" => Served(job.i)'
    <3>1. pc = "wait_j" => w # job.i /\ Served(job.i) /\ job.i \in Workers
      BY <1>1 DEF Borrowed, Task, Lent, TypeOK
    <3>2. ops' = ops /\ round' = round /\ job' = job
      BY <1>2 DEF taskVars, mainVars
    <3>. QED
      BY <1>4, <3>1, <3>2 DEF Served
  <2>. QED
    BY <1>1, <1>2, <1>4, <2>1 DEF Task, Lent, TurnsAlternate, FreshResult, mainVars, taskVars
<1>. QED
  BY <1>3, <1>5, <1>6

-----------------------------------------------------------------------------
\* Every step preserves the invariant.
LEMMA PoolStep == ASSUME PoolAssumption, PoolInv, [Next]_vars PROVE PoolInv'
<1>1. CASE MainThread
  BY <1>1, AsideStep, DispatchStep, ExchangeStep DEF MainThread, Aside, Exchange
<1>2. ASSUME NEW w \in Workers, Worker(w) \/ SpuriousWake(w) PROVE PoolInv'
  <2>1. CASE SpuriousWake(w)
    <3>1. TypeOK' /\ PoolThreads'
      BY <2>1, OwnType, OwnThreads DEF Own, PoolInv
    <3>2. UNCHANGED <<mainVars, wpc, syncVars, taskVars, flag, history>>
      BY <2>1 DEF SpuriousWake
    <3>. QED
      BY <3>1, <3>2 DEF PoolInv, Handover, Borrowed, Pair, Serving, Resting, Away, Served, Quota, Mode, Task, Lent,
                        TurnsAlternate, FreshResult, mainVars, syncVars, taskVars, history
  <2>. QED
    BY <1>2, <2>1, LoiterStep, BeginStep, SwapStep, EndTaskStep DEF Worker, Loiter
<1>3. CASE UNCHANGED vars
  BY <1>3 DEF PoolInv, TypeOK, Handover, Borrowed, Pair, Serving, Resting, Away, Served, Quota, Mode, Task, Lent,
              PoolThreads, TurnsAlternate, FreshResult, vars, mainVars, syncVars, taskVars, history
<1>. QED
  BY <1>1, <1>2, <1>3 DEF Next, Freed

LEMMA PoolInvariant == ASSUME PoolAssumption PROVE Spec => []PoolInv
<1>1. Init => PoolInv
  BY PoolStart
<1>2. PoolInv /\ [Next]_vars => PoolInv'
  BY PoolStep
<1>. QED
  BY <1>1, <1>2, PTL DEF Spec

\* The variables main thread and workers share without a lock belong to one of
\* them at every moment, the two sides of a pair take turns, a result read is
\* this dispatch's, of both sides and in full, and the memory is freed after the
\* last thread (test_inter_core.c), for every number of CPUs and rounds.
THEOREM PoolIsSoundHolds == ASSUME PoolAssumption PROVE Spec => []PoolIsSound
<1>1. PoolInv => PoolIsSound
  <2> SUFFICES ASSUME PoolInv PROVE PoolIsSound
    OBVIOUS
  <2>. USE DEF PoolInv
  <2>1. LentToOnePair
    BY LentToServe DEF LentToOnePair, Working, Pair
  <2>2. NothingAfterFree
    <3>1. ASSUME pc = "freed", NEW w \in Workers PROVE wpc[w] \in {"none", "exited"}
      <4>1. w < joined \/ w >= created
        BY <3>1 DEF PoolThreads, TypeOK, Workers
      <4>. QED
        BY <3>1, <4>1 DEF PoolThreads
    <3>. QED
      BY <3>1 DEF NothingAfterFree
  <2>. QED
    BY <2>1, <2>2 DEF PoolIsSound
<1>. QED
  BY <1>1, PoolInvariant, PTL

\* A quotient times its divisor is at most the dividend.
LEMMA Quotient ==
  ASSUME NEW a \in Int, NEW d \in Nat \ {0}
  PROVE  (a \div d) \in Int /\ (a \div d) * d <= a /\ a < (a \div d) * d + d
OBVIOUS

-----------------------------------------------------------------------------

(* The observed core pairs.                                                *)

PairsPlaces == {"idle", "meet", "warm", "sync", "trip", "final", "busy", "clock", "leave", "gone"}

PairsTypeOK ==
  /\ logical \in 2..MaxLogical /\ workers \in 2..logical /\ gen \in Nat
  /\ main \in {"start", "issue", "wait", "stop", "write", "end"}
  /\ shared \in [token : {0, 1}, done : Nat, failed : BOOLEAN, pairDone : BOOLEAN,
                 ready : SUBSET Nat, warmed : SUBSET Nat, stop : BOOLEAN]
  /\ worker \in [0..(MaxLogical - 1) ->
                   [at : PairsPlaces, seen : Nat, whole : BOOLEAN, took : Pairs!Measured]]
  /\ verdict \in [status : {"none", "failed", "written", "unsupported"}, covered : Nat,
                  accepted : {"none", "yes", "no"}]

\* What the reader makes of the attempts written so far is what the engine has.
Replayed ==
  /\ engine \in [kept : [Pairs!AllPairs -> 0..Samples], ids : SUBSET Cpus]
  /\ audit \in [kept : [Pairs!AllPairs -> 0..Samples], observed : SUBSET engine.ids, valid : {TRUE}]
  /\ audit.kept = engine.kept
  /\ IsFiniteSet(engine.ids) /\ Cardinality(engine.ids) <= logical
  /\ gen = 0 => engine.kept = [p \in Pairs!AllPairs |-> 0]
  /\ main # "end" => verdict.accepted = "none"

\* Workers that have come back from the attempt.
Back == {w \in Pairs!Pool : worker[w].seen = gen /\ worker[w].at = "idle"}

\* What a worker of an attempt under way can have measured: nothing before it
\* has been on the clock, and a whole exchange unless the attempt has failed.
Measuring(w) ==
  /\ worker[w].at \notin {"leave", "idle"} \/ worker[w].seen # gen => worker[w].took = Pairs!Unmeasured
  /\ worker[w].seen # gen => worker[w].at = "idle"
  /\ worker[w].at = "clock" \/ worker[w].took # Pairs!Unmeasured => worker[w].whole \/ shared.failed

\* Between two attempts every worker has come back from the last one.
Underway ==
  /\ main \in {"start", "issue"} => \A w \in Pairs!Pool : worker[w].at = "idle" /\ worker[w].seen = gen
  /\ main \in {"start", "issue", "wait"} => ~shared.stop /\ \A w \in Pairs!Pool : worker[w].seen <= gen
  /\ main = "wait" =>
       gen >= 1 /\ shared.done = Cardinality(Back) /\ \A w \in Pairs!Pool : Measuring(w)

PairsInv == PairsTypeOK /\ Replayed /\ Underway

-----------------------------------------------------------------------------
\* An attempt names two workers.
LEMMA PairIsOfPool ==
  ASSUME workers \in Nat \ {0, 1}, NEW g \in Nat \ {0}
  PROVE  Pairs!Ping(g) \in Pairs!Pool /\ Pairs!Pong(g) \in Pairs!Pool
<1>. DEFINE others == workers - 1
            order == Pairs!Order(g)
<1>1. others \in Nat \ {0} /\ workers = others + 1
  OBVIOUS
<1>2. order \in 0..(workers * others - 1)
  <2>1. workers * others \in Nat \ {0}
    BY <1>1
  <2>2. g - 1 \in Nat
    OBVIOUS
  <2>. DEFINE product == workers * others
  <2>3. (g - 1) % product \in 0..(product - 1)
    <3>. HIDE DEF product
    <3>. QED
      BY <2>1, <2>2 DEF product
  <2>. QED
    BY <2>3 DEF Pairs!Order
<1>. HIDE DEF others, order
<1>3. order \div others \in 0..(workers - 1)
  <2>1. /\ order \div others \in Int /\ (order \div others) * others <= order
        /\ order < (order \div others) * others + others
    BY <1>1, <1>2, Quotient
  <2>2. order \div others >= 0
    <3>1. ASSUME order \div others <= -1
          PROVE  FALSE
      <4>1. (order \div others) * others <= (-1) * others
        BY <1>1, <2>1, <3>1
      <4>. QED
        BY <1>1, <1>2, <2>1, <4>1
    <3>. QED
      BY <2>1, <3>1
  <2>3. order \div others <= workers - 1
    <3>1. ASSUME order \div others >= workers
          PROVE  FALSE
      <4>1. (order \div others) * others >= workers * others
        BY <1>1, <2>1, <3>1
      <4>2. workers * others \in Nat
        BY <1>1
      <4>. QED
        BY <1>1, <1>2, <2>1, <4>1, <4>2
    <3>. QED
      BY <1>1, <2>1, <3>1
  <2>. QED
    BY <1>1, <2>1, <2>2, <2>3
<1>4. order % others \in 0..(others - 1)
  BY <1>1, <1>2
<1>. QED
  BY <1>1, <1>3, <1>4 DEF Pairs!Ping, Pairs!Pong, Pairs!Pool, others, order

\* The fields of a worker.
LEMMA PairsFields ==
  ASSUME Pairs!ObservedAssumption, PairsTypeOK, NEW w \in Pairs!Pool
  PROVE  /\ w \in 0..(MaxLogical - 1) /\ Pairs!Pool \subseteq 0..(MaxLogical - 1)
         /\ worker[w] \in [at : PairsPlaces, seen : Nat, whole : BOOLEAN, took : Pairs!Measured]
         /\ IsFiniteSet(Pairs!Pool) /\ Cardinality(Pairs!Pool) = workers
<1>1. Pairs!Pool \subseteq 0..(MaxLogical - 1) /\ workers \in Nat \ {0}
  BY DEF PairsTypeOK, Pairs!Pool, Pairs!ObservedAssumption
<1>2. IsFiniteSet(0..(workers - 1)) /\ Cardinality(0..(workers - 1)) = workers
  BY <1>1, FS_Interval
<1>. QED
  BY <1>1, <1>2 DEF PairsTypeOK, Pairs!Pool

LEMMA PairsWorkerTypes ==
  ASSUME Pairs!ObservedAssumption, PairsTypeOK, NEW w \in Pairs!Pool, Pairs!Step(w)
  PROVE  PairsTypeOK'
<1>. USE PairsFields DEF PairsTypeOK, PairsPlaces, Pairs!Keeps, Pairs!Moves, Pairs!Flip, Pairs!FailsLate
<1>0. w \in Nat /\ Pairs!Unmeasured \in Pairs!Measured
  BY DEF Pairs!Measured
<1>. DEFINE Shared == [token : {0, 1}, done : Nat, failed : BOOLEAN, pairDone : BOOLEAN,
                       ready : SUBSET Nat, warmed : SUBSET Nat, stop : BOOLEAN]
<1>a. Pairs!Flip(w) \in Shared /\ Pairs!FailsLate \in BOOLEAN
  OBVIOUS
<1>1. CASE Pairs!Take(w)
  BY <1>0, <1>1 DEF Pairs!Take
<1>2. CASE Pairs!Met(w)
  BY <1>2 DEF Pairs!Met
<1>3. CASE Pairs!Warms(w)
  <2>. USE <1>0, <1>a
  <2>. HIDE DEF Pairs!Flip, Pairs!FailsLate
  <2>1. shared' \in Shared
    BY <1>3 DEF Pairs!Warms
  <2>2. worker' = [worker EXCEPT ![w].at = "sync"] \/ worker' = [worker EXCEPT ![w].at = "leave"]
    BY <1>3, Zenon DEF Pairs!Warms, Pairs!Moves
  <2>3. UNCHANGED <<logical, workers, main, gen, verdict>>
    BY <1>3 DEF Pairs!Warms
  <2>. QED
    BY <2>1, <2>2, <2>3
<1>4. CASE Pairs!Synced(w)
  BY <1>4 DEF Pairs!Synced
<1>5. CASE Pairs!Trips(w)
  <2>. HIDE DEF Pairs!Flip, Pairs!FailsLate
  <2>1. shared' \in Shared
    BY <1>a, <1>5 DEF Pairs!Trips
  <2>2. worker' = [worker EXCEPT ![w].at = "final"] \/ worker' = [worker EXCEPT ![w].at = "clock", ![w].whole = TRUE]
        \/ worker' = [worker EXCEPT ![w].at = "clock"]
    BY <1>5 DEF Pairs!Trips
  <2>. QED
    BY <1>5, <2>1, <2>2 DEF Pairs!Trips
<1>6. CASE Pairs!Returned(w)
  BY <1>6 DEF Pairs!Returned
<1>7. CASE Pairs!Clocks(w)
  BY <1>7 DEF Pairs!Clocks
<1>8. CASE Pairs!GivesUp(w)
  BY <1>8 DEF Pairs!GivesUp
<1>9. CASE Pairs!Leave(w)
  <2>. DEFINE left == [shared EXCEPT !.done = @ + 1]
  <2>1. left \in Shared
    OBVIOUS
  <2>2. shared' = [left EXCEPT !.pairDone = TRUE] \/ shared' = [left EXCEPT !.pairDone = FALSE]
    <3>1. (shared.pairDone \/ Pairs!IsPing(w)) \in {TRUE, FALSE}
      OBVIOUS
    <3>2. \/ shared' = [shared EXCEPT !.done = @ + 1, !.pairDone = TRUE]
          \/ shared' = [shared EXCEPT !.done = @ + 1, !.pairDone = FALSE]
      BY <1>9, <3>1, Zenon DEF Pairs!Leave
    <3>. QED
      BY <3>2
  <2>4. shared' \in Shared
    <3>. HIDE PairsFields DEF PairsTypeOK, left
    <3>. QED
      BY <2>1, <2>2
  <2>. HIDE DEF Shared
  <2>3. worker' = [worker EXCEPT ![w].at = "idle"] /\ UNCHANGED <<logical, workers, main, gen, verdict>>
    BY <1>9 DEF Pairs!Leave
  <2>. QED
    BY <2>3, <2>4 DEF Shared
<1>10. CASE Pairs!Exits(w)
  BY <1>10 DEF Pairs!Exits
<1>. QED
  BY <1>1, <1>2, <1>3, <1>4, <1>5, <1>6, <1>7, <1>8, <1>9, <1>10 DEF Pairs!Step

\* What one step does to the others, and to what they have seen.
LEMMA PairsOthersRest ==
  ASSUME Pairs!ObservedAssumption, PairsTypeOK, NEW w \in Pairs!Pool, Pairs!Step(w)
  PROVE  /\ UNCHANGED <<logical, workers, main, gen, late, engine, audit, verdict>>
         /\ \A v \in Pairs!Pool : v # w => worker'[v] = worker[v]
         /\ shared.failed => shared'.failed
         /\ shared'.stop = shared.stop
<1>. USE PairsFields DEF PairsTypeOK, Pairs!Keeps, Pairs!Moves, Pairs!Flip, Pairs!FailsLate
<1>1. CASE Pairs!Take(w) \/ Pairs!Met(w) \/ Pairs!Clocks(w) \/ Pairs!Exits(w) \/ Pairs!Returned(w) \/ Pairs!Leave(w)
  BY <1>1 DEF Pairs!Take, Pairs!Met, Pairs!Clocks, Pairs!Exits, Pairs!Returned, Pairs!Leave
<1>2. CASE Pairs!Warms(w)
  BY <1>2 DEF Pairs!Warms
<1>3. CASE Pairs!Synced(w)
  BY <1>3 DEF Pairs!Synced
<1>4. CASE Pairs!Trips(w)
  BY <1>4 DEF Pairs!Trips
<1>5. CASE Pairs!GivesUp(w)
  BY <1>5 DEF Pairs!GivesUp
<1>. QED
  BY <1>1, <1>2, <1>3, <1>4, <1>5 DEF Pairs!Step

\* While no attempt is under way no worker moves.
LEMMA NoStepBetween ==
  ASSUME Pairs!ObservedAssumption, PairsInv, NEW w \in Pairs!Pool, Pairs!Step(w), main \in {"start", "issue"}
  PROVE  FALSE
<1>1. worker[w].at = "idle" /\ worker[w].seen = gen /\ ~shared.stop
  BY DEF PairsInv, Underway
<1>. QED
  BY <1>1 DEF Pairs!Step, Pairs!Take, Pairs!Met, Pairs!Warms, Pairs!Synced, Pairs!Trips, Pairs!Returned,
     Pairs!Clocks, Pairs!GivesUp, Pairs!Leave, Pairs!Exits

\* One worker's own step, in an attempt under way.
LEMMA MeasuringKept ==
  ASSUME Pairs!ObservedAssumption, PairsInv, NEW w \in Pairs!Pool, Pairs!Step(w), main = "wait"
  PROVE  /\ Measuring(w)' /\ worker'[w].seen <= gen
         /\ IF Pairs!Leave(w)
            THEN /\ worker[w].at = "leave" /\ worker[w].seen = gen /\ worker'[w].at = "idle" /\ worker'[w].seen = gen
                 /\ shared'.done = shared.done + 1
            ELSE /\ shared'.done = shared.done
                 /\ worker[w].at = "idle" => worker[w].seen # gen
                 /\ worker'[w].at # "idle"
<1>. USE PairsFields DEF PairsTypeOK
<1>1. PairsTypeOK /\ Measuring(w) /\ ~shared.stop /\ worker[w].seen <= gen /\ gen' = gen
  BY PairsOthersRest DEF PairsInv, Underway
<1>a. Pairs!Flip(w) \in [token : {0, 1}, done : {shared.done}, failed : BOOLEAN, pairDone : BOOLEAN,
                         ready : SUBSET Nat, warmed : SUBSET Nat, stop : {shared.stop}]
  BY <1>1 DEF Pairs!Flip
<1>b. /\ w \in 0..(MaxLogical - 1)
      /\ worker \in [0..(MaxLogical - 1) -> [at : PairsPlaces, seen : Nat, whole : BOOLEAN, took : Pairs!Measured]]
  BY <1>1
<1>2. CASE Pairs!Take(w)
  BY <1>1, <1>2 DEF Pairs!Take, Pairs!Leave, Measuring
<1>3. CASE Pairs!Met(w)
  BY <1>1, <1>3 DEF Pairs!Met, Pairs!Moves, Pairs!Leave, Measuring
<1>4. CASE Pairs!Warms(w)
  <2>0. worker' = [worker EXCEPT ![w].at = "sync"] \/ worker' = [worker EXCEPT ![w].at = "leave"]
    BY <1>4, Zenon DEF Pairs!Warms, Pairs!Moves
  <2>1. /\ worker'[w].seen = worker[w].seen /\ worker'[w].whole = worker[w].whole /\ worker'[w].took = worker[w].took
        /\ worker'[w].at \in {"sync", "leave"} /\ worker[w].at = "warm"
    <3>1. worker[w].at = "warm"
      BY <1>4 DEF Pairs!Warms
    <3>. HIDE PairsFields DEF PairsTypeOK
    <3>. QED
      BY <1>b, <2>0, <3>1
  <2>2. shared'.done = shared.done
    BY <1>a, <1>4 DEF Pairs!Warms
  <2>. QED
    BY <1>1, <2>1, <2>2, PairsOthersRest DEF Pairs!Leave, Measuring
<1>5. CASE Pairs!Synced(w)
  BY <1>1, <1>5 DEF Pairs!Synced, Pairs!Moves, Pairs!Leave, Measuring
<1>6. CASE Pairs!Trips(w)
  <2>0. \/ worker' = [worker EXCEPT ![w].at = "final"]
        \/ worker' = [worker EXCEPT ![w].at = "clock", ![w].whole = TRUE]
        \/ /\ worker' = [worker EXCEPT ![w].at = "clock"]
           /\ shared' = [Pairs!Flip(w) EXCEPT !.failed = TRUE]
    BY <1>1, <1>6, Zenon DEF Pairs!Trips, Pairs!Moves, Pairs!FailsLate
  <2>1. /\ worker'[w].seen = worker[w].seen /\ worker'[w].took = worker[w].took
        /\ worker'[w].at \in {"final", "clock"} /\ worker[w].at = "trip"
    <3>1. worker[w].at = "trip"
      BY <1>6 DEF Pairs!Trips
    <3>. HIDE PairsFields DEF PairsTypeOK
    <3>. QED
      BY <1>b, <2>0, <3>1
  <2>2. shared'.done = shared.done
    BY <1>a, <1>6 DEF Pairs!Trips
  <2>3. worker'[w].at = "clock" => worker'[w].whole \/ shared'.failed
    <3>. HIDE PairsFields DEF PairsTypeOK
    <3>. QED
      BY <1>b, <1>a, <2>0
  <2>. QED
    BY <1>1, <2>1, <2>2, <2>3 DEF Pairs!Leave, Measuring
<1>7. CASE Pairs!Returned(w)
  BY <1>1, <1>7 DEF Pairs!Returned, Pairs!Leave, Measuring
<1>8. CASE Pairs!Clocks(w)
  BY <1>1, <1>8 DEF Pairs!Clocks, Pairs!Leave, Measuring
<1>9. CASE Pairs!GivesUp(w)
  BY <1>1, <1>9 DEF Pairs!GivesUp, Pairs!Moves, Pairs!FailsLate, Pairs!Leave, Measuring
<1>10. CASE Pairs!Leave(w)
  BY <1>1, <1>10 DEF Pairs!Moves, Pairs!Leave, Measuring
<1>11. ~Pairs!Exits(w)
  BY <1>1 DEF Pairs!Exits
<1>. QED
  BY <1>2, <1>3, <1>4, <1>5, <1>6, <1>7, <1>8, <1>9, <1>10, <1>11 DEF Pairs!Step

LEMMA PairsWorkerStep ==
  ASSUME Pairs!ObservedAssumption, PairsInv, NEW w \in Pairs!Pool, Pairs!Step(w)
  PROVE  PairsInv'
<1>1. PairsTypeOK' /\ UNCHANGED <<logical, workers, main, gen, late, engine, audit, verdict>>
  BY PairsWorkerTypes, PairsOthersRest DEF PairsInv
<1>2. Replayed'
  BY <1>1 DEF PairsInv, Replayed
<1>3. main \notin {"start", "issue"} /\ Pairs!Pool' = Pairs!Pool
  BY <1>1, NoStepBetween DEF Pairs!Pool
<1>4. ASSUME main = "wait"
      PROVE  Underway'
  <2>. USE <1>4
  <2>1. /\ ~shared'.stop /\ gen >= 1 /\ shared.done = Cardinality(Back)
        /\ \A v \in Pairs!Pool : Measuring(v) /\ worker[v].seen <= gen
    BY PairsOthersRest DEF PairsInv, Underway
  <2>2. \A v \in Pairs!Pool : v # w => Measuring(v)' /\ worker'[v].seen <= gen
    BY <1>1, <2>1, PairsOthersRest DEF PairsInv, PairsTypeOK, Measuring
  <2>3. Measuring(w)' /\ worker'[w].seen <= gen
    BY MeasuringKept
  <2>4. IsFiniteSet(Back)
    BY PairsFields, FS_Subset DEF Back, PairsInv
  <2>5. shared'.done = Cardinality(Back')
    <3>1. CASE Pairs!Leave(w)
      <4>1. Back' = Back \cup {w} /\ w \notin Back /\ shared'.done = shared.done + 1
        BY <1>1, <1>3, <3>1, MeasuringKept, PairsOthersRest DEF Back, PairsInv
      <4>. QED
        BY <2>1, <2>4, <4>1, FS_AddElement
    <3>2. CASE ~Pairs!Leave(w)
      <4>1. Back' = Back /\ shared'.done = shared.done
        BY <1>1, <1>3, <3>2, MeasuringKept, PairsOthersRest DEF Back, PairsInv
      <4>. QED
        BY <2>1, <4>1
    <3>. QED
      BY <3>1, <3>2
  <2>. QED
    BY <1>1, <1>3, <2>1, <2>2, <2>3, <2>5 DEF Underway
<1>5. ASSUME main # "wait"
      PROVE  Underway'
  BY <1>1, <1>3, <1>5 DEF Underway
<1>. QED
  BY <1>1, <1>2, <1>4, <1>5 DEF PairsInv

-----------------------------------------------------------------------------
\* Counting is counting, under either name.
LEMMA PairsCount ==
  ASSUME NEW s
  PROVE  Pairs!Cardinality(s) = Cardinality(s)
BY DEF Pairs!Cardinality, Cardinality

\* CPU numbers are entered up to the number of CPUs.
LEMMA EnterKeepsBound ==
  ASSUME NEW ids \in SUBSET Cpus, NEW cpu \in Cpus, logical \in Nat, IsFiniteSet(ids), Cardinality(ids) <= logical
  PROVE  /\ Pairs!Enter(ids, cpu) \in SUBSET Cpus /\ ids \subseteq Pairs!Enter(ids, cpu)
         /\ IsFiniteSet(Pairs!Enter(ids, cpu)) /\ Cardinality(Pairs!Enter(ids, cpu)) <= logical
<1>1. IsFiniteSet(ids \cup {cpu}) /\ Cardinality(ids \cup {cpu}) \in {Cardinality(ids), Cardinality(ids) + 1}
  BY FS_AddElement
<1>2. Cardinality(ids) \in Nat
  BY FS_CardinalityType
<1>. QED
  BY <1>1, <1>2, PairsCount DEF Pairs!Enter

\* What a worker has measured: nothing, two numbers it knows, or none it knows.
LEMMA PairsMeasured ==
  ASSUME Pairs!ObservedAssumption, NEW m \in Pairs!Measured
  PROVE  /\ m.elapsed \in {0, 1} /\ (m.elapsed = 0 => m = Pairs!Unmeasured)
         /\ m.elapsed # 0 => \/ m.before \in Cpus /\ m.after \in Cpus
                             \/ m.before = "odd" /\ m.after = "odd"
BY DEF Pairs!Measured, Pairs!Unmeasured, Pairs!Odd, Pairs!None

\* The reader does with an attempt what the engine has done with it.
LEMMA CollectReplayed ==
  ASSUME Pairs!ObservedAssumption, PairsInv, Pairs!Collect
  PROVE  /\ Replayed'
         /\ engine'.kept # engine.kept =>
              ~shared.failed /\ \A w \in Pairs!Pair(gen) : worker[w].took.elapsed # 0
<1>. DEFINE ping == Pairs!Of(Pairs!Ping(gen))
            pong == Pairs!Of(Pairs!Pong(gen))
            a == [from |-> <<ping.before, ping.after>>, to |-> <<pong.before, pong.after>>,
                  ping |-> ping.elapsed, pong |-> pong.elapsed]
            ids == IF Pairs!Known(a) THEN Pairs!Enter(Pairs!Enter(engine.ids, a.from[1]), a.to[1]) ELSE engine.ids
            made == Pairs!Classify(a, ids)
            from == ping.before
            to == pong.before
<1>1. /\ main = "wait" /\ gen \in Nat \ {0} /\ logical \in Nat /\ workers \in Nat \ {0, 1}
      /\ engine \in [kept : [Pairs!AllPairs -> 0..Samples], ids : SUBSET Cpus]
      /\ audit \in [kept : [Pairs!AllPairs -> 0..Samples], observed : SUBSET engine.ids, valid : {TRUE}]
      /\ audit.kept = engine.kept /\ IsFiniteSet(engine.ids) /\ Cardinality(engine.ids) <= logical
      /\ Samples \in Nat \ {0} /\ verdict.accepted = "none"
  <2>1. main = "wait"
    BY DEF Pairs!Collect
  <2>2. gen \in Nat \ {0} /\ logical \in Nat /\ workers \in Nat \ {0, 1}
    BY <2>1 DEF PairsInv, PairsTypeOK, Underway, Pairs!ObservedAssumption
  <2>. QED
    BY <2>1, <2>2 DEF PairsInv, Replayed, Pairs!ObservedAssumption
<1>2. ping \in Pairs!Measured /\ pong \in Pairs!Measured
  BY <1>1, PairIsOfPool, PairsFields DEF PairsInv, Pairs!Of
<1>3. /\ engine' = [ids |-> ids, kept |-> IF made = "kept"
                      THEN [engine.kept EXCEPT ![Pairs!Key(a)] = @ + 1] ELSE engine.kept]
      /\ audit' = Pairs!ReadAttempt(a, made)
      /\ UNCHANGED <<logical, workers, gen, late, worker, verdict>> /\ main' # "end"
  BY DEF Pairs!Collect
<1>4. /\ a.from[1] = from /\ a.from[2] = ping.after /\ a.to[1] = to /\ a.to[2] = pong.after
      /\ a.ping = ping.elapsed /\ a.pong = pong.elapsed
  OBVIOUS
<1>. HIDE DEF a
<1>5. ASSUME ~Pairs!TimedOut(a), ~Pairs!Unknown(a), Pairs!Distinct(a)
      PROVE  /\ from \in Cpus /\ to \in Cpus /\ Pairs!Key(a) = <<from, to>>
             /\ Pairs!Key(a) \in Pairs!AllPairs
  <2>. HIDE DEF ping, pong
  <2>1. /\ ping.elapsed # 0 /\ pong.elapsed # 0 /\ from # "odd" /\ to # "odd" /\ from # to
        /\ Pairs!Key(a) = <<from, to>>
    BY <1>4, <1>5 DEF Pairs!TimedOut, Pairs!Unknown, Pairs!Distinct, Pairs!Odd, Pairs!Key
  <2>2. from \in Cpus /\ to \in Cpus
    BY <1>2, <2>1, PairsMeasured
  <2>. QED
    BY <2>1, <2>2 DEF Pairs!AllPairs
<1>. HIDE DEF ping, pong
<1>6. /\ ids \in SUBSET Cpus /\ engine.ids \subseteq ids /\ IsFiniteSet(ids) /\ Cardinality(ids) <= logical
  <2>1. CASE Pairs!Known(a)
    <3>1. from \in Cpus /\ to \in Cpus
      BY <1>5, <2>1 DEF Pairs!Known
    <3>. DEFINE one == Pairs!Enter(engine.ids, from)
    <3>2. one \in SUBSET Cpus /\ engine.ids \subseteq one /\ IsFiniteSet(one) /\ Cardinality(one) <= logical
      BY <1>1, <3>1, EnterKeepsBound
    <3>. HIDE DEF one
    <3>3. /\ Pairs!Enter(one, to) \in SUBSET Cpus /\ one \subseteq Pairs!Enter(one, to)
          /\ IsFiniteSet(Pairs!Enter(one, to)) /\ Cardinality(Pairs!Enter(one, to)) <= logical
      BY <1>1, <3>1, <3>2, EnterKeepsBound
    <3>. QED
      BY <1>4, <2>1, <3>2, <3>3 DEF one
  <2>. QED
    BY <1>1, <2>1
<1>. HIDE DEF ids
\* An attempt that is not counted leaves the reader as it was.
<1>7. CASE made \notin {"kept", "quota"}
  <2>1. audit' = audit
    <3>1. CASE made \in {"timeout", "cpu_id_unavailable"}
      BY <1>3, <3>1 DEF Pairs!ReadAttempt
    <3>2. CASE made = "migration" \/ made = "same_cpu"
      <4>1. /\ a.ping # 0
            /\ made = "migration" => Pairs!Migrated(a)
            /\ made = "same_cpu" => ~Pairs!Migrated(a) /\ ~Pairs!Distinct(a)
        BY <3>2 DEF Pairs!Classify, Pairs!TimedOut
      <4>. HIDE DEF made
      <4>. QED
        BY <1>3, <3>2, <4>1 DEF Pairs!ReadAttempt
    <3>. QED
      BY <1>7, <3>1, <3>2 DEF Pairs!Classify
  <2>. HIDE DEF made
  <2>2. engine' = [ids |-> ids, kept |-> engine.kept]
    BY <1>3, <1>7
  <2>. QED
    <3>1. /\ engine'.kept = engine.kept /\ engine'.ids = ids
          /\ engine' \in [kept : [Pairs!AllPairs -> 0..Samples], ids : SUBSET Cpus]
      BY <1>1, <1>6, <2>2
    <3>2. audit' \in [kept : [Pairs!AllPairs -> 0..Samples], observed : SUBSET ids, valid : {TRUE}]
      BY <1>1, <1>6, <2>1
    <3>. QED
      BY <1>1, <1>3, <1>6, <2>1, <3>1, <3>2 DEF Replayed, Pairs!AllPairs
\* One that is counted is counted, or found full, on both sides.
<1>8. CASE made \in {"kept", "quota"}
  <2>. DEFINE key == Pairs!Key(a)
  <2>1. /\ ~Pairs!TimedOut(a) /\ ~Pairs!Unknown(a) /\ ~Pairs!Migrated(a) /\ Pairs!Distinct(a)
        /\ {from, to} \subseteq ids
        /\ made = "quota" <=> engine.kept[key] = Samples
        /\ made = IF engine.kept[key] = Samples THEN "quota" ELSE "kept"
    BY <1>4, <1>8 DEF Pairs!Classify
  <2>. HIDE DEF made
  <2>2. key \in Pairs!AllPairs
    BY <1>5, <2>1
  <2>3. a.ping # 0 /\ a.pong # 0 /\ ~shared.failed
    BY <2>1 DEF Pairs!TimedOut
  <2>. HIDE DEF key
  <2>4. audit' = [kept |-> IF made = "kept" THEN [engine.kept EXCEPT ![key] = @ + 1] ELSE engine.kept,
                  observed |-> audit.observed \union {from, to}, valid |-> TRUE]
    BY <1>1, <1>3, <1>4, <1>8, <2>1, <2>3 DEF Pairs!ReadAttempt, key
  <2>5. engine' = [ids |-> ids, kept |-> IF made = "kept" THEN [engine.kept EXCEPT ![key] = @ + 1] ELSE engine.kept]
    BY <1>3 DEF key
  <2>. DEFINE now == IF made = "kept" THEN [engine.kept EXCEPT ![key] = @ + 1] ELSE engine.kept
  <2>6. now \in [Pairs!AllPairs -> 0..Samples]
    BY <1>1, <2>1, <2>2
  <2>. HIDE DEF now
  <2>7. engine' = [ids |-> ids, kept |-> now] /\ audit' = [kept |-> now, observed |-> audit.observed \union {from, to}, valid |-> TRUE]
    BY <2>4, <2>5 DEF now
  <2>8. Replayed'
    <3>1. /\ engine'.kept = now /\ engine'.ids = ids /\ audit'.kept = now
          /\ engine' \in [kept : [Pairs!AllPairs -> 0..Samples], ids : SUBSET Cpus]
      BY <1>6, <2>6, <2>7
    <3>2. audit' \in [kept : [Pairs!AllPairs -> 0..Samples], observed : SUBSET ids, valid : {TRUE}]
      <4>1. audit.observed \union {from, to} \in SUBSET ids
        BY <1>1, <1>6, <2>1
      <4>. QED
        BY <2>6, <2>7, <4>1
    <3>. QED
      BY <1>1, <1>3, <1>6, <3>1, <3>2 DEF Replayed, Pairs!AllPairs
  <2>9. \A w \in Pairs!Pair(gen) : worker[w].took.elapsed # 0
    BY <1>4, <2>3 DEF Pairs!Pair, Pairs!Of, ping, pong
  <2>. QED
    BY <2>3, <2>8, <2>9
<1>. QED
  BY <1>7, <1>8
-----------------------------------------------------------------------------
\* When as many workers have come back as there are, all have.
LEMMA AllAreBack ==
  ASSUME Pairs!ObservedAssumption, PairsInv, main = "wait", shared.done = workers
  PROVE  \A w \in Pairs!Pool : worker[w].at = "idle" /\ worker[w].seen = gen
<1>1. 0 \in Pairs!Pool
  BY DEF PairsInv, PairsTypeOK, Pairs!Pool, Pairs!ObservedAssumption
<1>2. IsFiniteSet(Pairs!Pool) /\ Cardinality(Pairs!Pool) = workers
  BY <1>1, PairsFields DEF PairsInv
<1>3. Back \subseteq Pairs!Pool /\ Cardinality(Back) = workers
  BY DEF PairsInv, Underway, Back
<1>4. Back = Pairs!Pool
  BY <1>2, <1>3, FS_Subset
<1>. QED
  BY <1>4 DEF Back

LEMMA PairsIssue ==
  ASSUME Pairs!ObservedAssumption, PairsInv, Pairs!Issue
  PROVE  PairsInv'
<1>. DEFINE Record == [at : PairsPlaces, seen : Nat, whole : BOOLEAN, took : Pairs!Measured]
<1>1. /\ main = "issue" /\ main' = "wait" /\ gen' = gen + 1 /\ shared' = Pairs!Cleared
      /\ worker' = [w \in DOMAIN worker |-> [worker[w] EXCEPT !.took = Pairs!Unmeasured]]
      /\ UNCHANGED <<logical, workers, engine, audit, verdict>> /\ Pairs!Pool' = Pairs!Pool
  BY DEF Pairs!Issue, Pairs!Pool
<1>2. worker \in [0..(MaxLogical - 1) -> Record] /\ gen \in Nat /\ Pairs!Pool \subseteq 0..(MaxLogical - 1)
  BY DEF PairsInv, PairsTypeOK, Pairs!Pool, Pairs!ObservedAssumption
<1>3. Pairs!Unmeasured \in Pairs!Measured
  BY DEF Pairs!Measured
<1>4. /\ worker' \in [0..(MaxLogical - 1) -> Record]
      /\ \A w \in 0..(MaxLogical - 1) : /\ worker'[w].at = worker[w].at /\ worker'[w].seen = worker[w].seen
                                        /\ worker'[w].took = Pairs!Unmeasured
  BY <1>1, <1>2, <1>3
<1>5. PairsTypeOK'
  BY <1>1, <1>2, <1>4 DEF PairsInv, PairsTypeOK, Pairs!Cleared
<1>6. Replayed'
  <2>1. gen' # 0 /\ main # "end" /\ UNCHANGED <<logical, engine, audit, verdict>>
    BY <1>1, <1>2
  <2>. QED
    BY <2>1 DEF PairsInv, Replayed, Pairs!AllPairs
<1>7. \A w \in Pairs!Pool : worker'[w].at = "idle" /\ worker'[w].seen = gen /\ worker'[w].took = Pairs!Unmeasured
  BY <1>1, <1>2, <1>4 DEF PairsInv, Underway
<1>8. Back' = {}
  BY <1>1, <1>2, <1>7 DEF Back
<1>9. shared'.done = 0 /\ shared'.stop = FALSE
  BY <1>1 DEF Pairs!Cleared
<1>10. \A w \in Pairs!Pool : Measuring(w)' /\ worker'[w].seen <= gen'
  BY <1>1, <1>2, <1>7 DEF Measuring, Pairs!Unmeasured
<1>11. shared'.done = Cardinality(Back')
  BY <1>8, <1>9, FS_EmptySet
<1>. QED
  BY <1>1, <1>2, <1>5, <1>6, <1>9, <1>10, <1>11 DEF PairsInv, Underway

LEMMA PairsCollect ==
  ASSUME Pairs!ObservedAssumption, PairsInv, Pairs!Collect
  PROVE  PairsInv'
<1>1. /\ main = "wait" /\ shared.done = workers
      /\ UNCHANGED <<logical, workers, gen, late, worker, verdict>> /\ Pairs!Pool' = Pairs!Pool
  BY DEF Pairs!Collect, Pairs!Pool
<1>2. \/ main' = "stop" /\ shared' = [shared EXCEPT !.stop = TRUE]
      \/ main' = "issue" /\ shared' = [shared EXCEPT !.stop = FALSE]
  <2>. DEFINE all == Pairs!Cardinality(Pairs!Whole(engine'.kept)) = logical * (logical - 1)
  <2>1. main' = (IF all THEN "stop" ELSE "issue") /\ shared' = [shared EXCEPT !.stop = all]
    BY DEF Pairs!Collect
  <2>2. all \in {TRUE, FALSE}
    OBVIOUS
  <2>. HIDE DEF all
  <2>. QED
    BY <2>1, <2>2, Zenon
<1>3. \A w \in Pairs!Pool : worker[w].at = "idle" /\ worker[w].seen = gen
  BY <1>1, AllAreBack
<1>4. PairsTypeOK'
  BY <1>1, <1>2 DEF PairsInv, PairsTypeOK
<1>5. main' = "issue" => ~shared'.stop
  BY <1>2 DEF PairsInv, PairsTypeOK
<1>6. gen \in Nat
  BY DEF PairsInv, PairsTypeOK
<1>7. Underway'
  BY <1>1, <1>2, <1>3, <1>5, <1>6 DEF Underway
<1>. QED
  BY <1>4, <1>7, CollectReplayed DEF PairsInv

\* There are finitely many pairs.
LEMMA WholeIsFinite ==
  ASSUME Pairs!ObservedAssumption, NEW kept
  PROVE  IsFiniteSet(Pairs!Whole(kept)) /\ Cardinality(Pairs!Whole(kept)) \in Nat
<1>1. IsFiniteSet(Cpus \X Cpus)
  <2>1. IsFiniteSet(Cpus)
    BY DEF Pairs!ObservedAssumption, Pairs!IsFiniteSet, IsFiniteSet
  <2>. QED
    BY <2>1, FS_Product
<1>2. Pairs!Whole(kept) \subseteq Cpus \X Cpus
  BY DEF Pairs!Whole, Pairs!AllPairs
<1>. QED
  BY <1>1, <1>2, FS_Subset, FS_CardinalityType

LEMMA PairsMain ==
  ASSUME Pairs!ObservedAssumption, PairsInv, Pairs!Main
  PROVE  PairsInv'
<1>1. CASE Pairs!Start
  <2>1. PairsTypeOK'
    BY <1>1 DEF Pairs!Start, PairsInv, PairsTypeOK
  <2>2. Replayed'
    BY <1>1 DEF Pairs!Start, PairsInv, Replayed, Pairs!AllPairs, PairsTypeOK
  <2>3. Underway'
    BY <1>1 DEF Pairs!Start, PairsInv, Underway, Pairs!Pool
  <2>. QED
    BY <2>1, <2>2, <2>3 DEF PairsInv
<1>2. CASE Pairs!Issue
  BY <1>2, PairsIssue
<1>3. CASE Pairs!Enough
  <2>1. PairsTypeOK'
    BY <1>3 DEF Pairs!Enough, PairsInv, PairsTypeOK
  <2>. QED
    BY <1>3, <2>1 DEF Pairs!Enough, PairsInv, Replayed, Underway
<1>4. CASE Pairs!Late \/ Pairs!Fail
  <2>1. PairsTypeOK' /\ shared'.done = shared.done /\ shared'.stop = shared.stop /\ (shared.failed => shared'.failed)
    BY <1>4 DEF Pairs!Late, Pairs!Fail, PairsInv, PairsTypeOK
  <2>2. UNCHANGED <<logical, workers, main, gen, worker, engine, audit, verdict>>
    BY <1>4 DEF Pairs!Late, Pairs!Fail
  <2>3. Replayed'
    BY <2>2 DEF PairsInv, Replayed
  <2>4. Back' = Back /\ Pairs!Pool' = Pairs!Pool
    BY <2>2 DEF Back, Pairs!Pool
  <2>5. \A w \in Pairs!Pool : Measuring(w) => Measuring(w)'
    BY <2>1, <2>2 DEF Measuring
  <2>6. Underway'
    BY <2>1, <2>2, <2>4, <2>5 DEF PairsInv, Underway
  <2>. QED
    BY <2>1, <2>3, <2>6 DEF PairsInv
<1>5. CASE Pairs!Kill
  <2>1. PairsTypeOK'
    BY <1>5 DEF Pairs!Kill, PairsInv, PairsTypeOK, PairsPlaces
  <2>. QED
    BY <1>5, <2>1 DEF Pairs!Kill, PairsInv, Replayed, Underway
<1>6. CASE Pairs!Collect
  BY <1>6, PairsCollect
<1>7. CASE Pairs!Join
  <2>1. PairsTypeOK' /\ main' \in {"write", "end"} /\ main = "stop"
    BY <1>7 DEF Pairs!Join, PairsInv, PairsTypeOK
  <2>. QED
    BY <1>7, <2>1 DEF Pairs!Join, PairsInv, Replayed, Underway
<1>8. CASE Pairs!Write
  <2>1. PairsTypeOK'
    <3>1. UNCHANGED <<logical, workers, gen, shared, worker>> /\ main' = "end"
      BY <1>8 DEF Pairs!Write
    <3>2. \/ verdict' = [verdict EXCEPT !.status = "failed"]
          \/ /\ verdict'.covered = Cardinality(Pairs!Whole(engine.kept))
             /\ verdict' \in [status : {"written", "unsupported"}, covered : {verdict'.covered},
                             accepted : {"yes", "no"}]
      BY <1>8, PairsCount DEF Pairs!Write
    <3>3. Cardinality(Pairs!Whole(engine.kept)) \in Nat
      BY WholeIsFinite
    <3>. QED
      BY <3>1, <3>2, <3>3 DEF PairsInv, PairsTypeOK
  <2>. QED
    BY <1>8, <2>1 DEF Pairs!Write, PairsInv, Replayed, Underway, Pairs!AllPairs
<1>. QED
  BY <1>1, <1>2, <1>3, <1>4, <1>5, <1>6, <1>7, <1>8 DEF Pairs!Main
-----------------------------------------------------------------------------
\* What is written while the reader agrees is accepted exactly when it is a report.
LEMMA WriteAccepted ==
  ASSUME Pairs!ObservedAssumption, PairsInv, Pairs!Write
  PROVE  Pairs!ObservedAccepted'
<1>. DEFINE covered == Pairs!Cardinality(Pairs!Whole(engine.kept))
<1>1. covered = Cardinality(Pairs!Whole(engine.kept)) /\ covered \in Nat
  BY PairsCount, WholeIsFinite
<1>2. /\ audit.kept = engine.kept /\ audit.valid /\ workers <= logical
      /\ Samples \in Nat \ {0} /\ gen \in Nat
  <2>1. audit.kept = engine.kept /\ audit.valid
    BY DEF PairsInv, Replayed
  <2>. QED
    BY <2>1 DEF PairsInv, PairsTypeOK, Pairs!ObservedAssumption
<1>3. Pairs!Cardinality(audit.observed) <= logical
  <2>1. audit.observed \in SUBSET engine.ids /\ IsFiniteSet(engine.ids) /\ Cardinality(engine.ids) <= logical
    BY DEF PairsInv, Replayed
  <2>2. /\ Cardinality(audit.observed) <= Cardinality(engine.ids)
        /\ Cardinality(audit.observed) \in Nat /\ Cardinality(engine.ids) \in Nat /\ logical \in Nat
    BY <2>1, FS_Subset, FS_CardinalityType DEF PairsInv, PairsTypeOK
  <2>. QED
    BY <2>1, <2>2, PairsCount
<1>4. covered > 0 => gen >= 1
  <2>. SUFFICES ASSUME gen = 0
               PROVE  covered = 0
    BY <1>1, <1>2
  <2>1. engine.kept = [p \in Pairs!AllPairs |-> 0]
    BY DEF PairsInv, Replayed
  <2>2. Pairs!Whole(engine.kept) = {}
    BY <1>2, <2>1 DEF Pairs!Whole
  <2>. QED
    BY <1>1, <2>2, FS_EmptySet
<1>5. Pairs!Accepts(covered) <=> covered > 0
  BY <1>2, <1>3, <1>4 DEF Pairs!Accepts
<1>6. \/ verdict' = [verdict EXCEPT !.status = "failed"]
      \/ verdict' = [status |-> IF covered > 0 THEN "written" ELSE "unsupported", covered |-> covered,
                     accepted |-> IF Pairs!Accepts(covered) THEN "yes" ELSE "no"]
  BY DEF Pairs!Write
<1>7. UNCHANGED <<engine, audit>> /\ main = "write"
  BY DEF Pairs!Write
<1>. HIDE DEF covered
<1>8. CASE verdict' = [verdict EXCEPT !.status = "failed"]
  BY <1>7, <1>8 DEF PairsInv, PairsTypeOK, Replayed, Pairs!ObservedAccepted, Pairs!None
<1>9. CASE verdict' = [status |-> IF covered > 0 THEN "written" ELSE "unsupported", covered |-> covered,
                       accepted |-> IF Pairs!Accepts(covered) THEN "yes" ELSE "no"]
  BY <1>2, <1>5, <1>7, <1>9 DEF Pairs!ObservedAccepted, Pairs!None
<1>. QED
  BY <1>6, <1>8, <1>9

PairsEvidence == part = "pairs" => PairsInv /\ Pairs!ObservedAccepted

LEMMA PairsEvidenceStep ==
  ASSUME Pairs!ObservedAssumption, PairsInv, Pairs!ObservedAccepted, Pairs!Next
  PROVE  PairsInv' /\ Pairs!ObservedAccepted'
<1>1. PairsInv'
  BY PairsWorkerStep, PairsMain DEF Pairs!Next
<1>2. CASE Pairs!Write
  BY <1>1, <1>2, WriteAccepted
<1>3. CASE ~Pairs!Write
  <2>1. CASE Pairs!Kill \/ Pairs!Join
    <3>1. verdict.accepted = "none"
      BY <2>1 DEF Pairs!Kill, Pairs!Join, PairsInv, Replayed
    <3>2. verdict'.accepted = verdict.accepted
      BY <2>1 DEF Pairs!Kill, Pairs!Join, PairsInv, PairsTypeOK
    <3>. QED
      BY <1>1, <3>1, <3>2 DEF Pairs!ObservedAccepted, Pairs!None
  <2>2. CASE \E w \in Pairs!Pool : Pairs!Step(w)
    <3>1. UNCHANGED <<engine, audit, verdict>>
      BY <2>2, PairsOthersRest DEF PairsInv
    <3>. QED
      BY <1>1, <3>1 DEF Pairs!ObservedAccepted
  <2>3. CASE Pairs!Start \/ Pairs!Issue \/ Pairs!Enough \/ Pairs!Late \/ Pairs!Fail \/ Pairs!Collect
    <3>1. main' # "end"
      BY <2>3 DEF Pairs!Start, Pairs!Issue, Pairs!Enough, Pairs!Late, Pairs!Fail, Pairs!Collect
    <3>2. verdict'.accepted = "none"
      BY <1>1, <3>1 DEF PairsInv, Replayed
    <3>. QED
      BY <1>1, <3>2 DEF Pairs!ObservedAccepted, Pairs!None
  <2>. QED
    BY <1>3, <2>1, <2>2, <2>3 DEF Pairs!Next, Pairs!Main
<1>. QED
  BY <1>2, <1>3

\* Samples are kept from whole exchanges of the attempt under way.
LEMMA PairsKeepWhole ==
  ASSUME Pairs!ObservedAssumption, PairsInv, Pairs!Next, engine'.kept # engine.kept
  PROVE  \A w \in Pairs!Pair(gen) : worker[w].whole /\ worker[w].seen = gen
<1>1. CASE Pairs!Collect
  <2>1. /\ main = "wait" /\ shared.done = workers /\ ~shared.failed
        /\ \A w \in Pairs!Pair(gen) : worker[w].took.elapsed # 0
    BY <1>1, CollectReplayed DEF Pairs!Collect
  <2>2. workers \in Nat \ {0, 1} /\ gen \in Nat \ {0}
    BY <2>1 DEF PairsInv, PairsTypeOK, Underway, Pairs!ObservedAssumption
  <2>3. \A w \in Pairs!Pair(gen) : w \in Pairs!Pool
    BY <2>2, PairIsOfPool DEF Pairs!Pair
  <2>4. \A w \in Pairs!Pool : Measuring(w) /\ worker[w].seen = gen
    BY <2>1, AllAreBack DEF PairsInv, Underway
  <2>5. Pairs!Unmeasured.elapsed = 0
    BY DEF Pairs!Unmeasured
  <2>. QED
    BY <2>1, <2>3, <2>4, <2>5 DEF Measuring
<1>2. CASE Pairs!Start \/ Pairs!Issue \/ Pairs!Enough \/ Pairs!Late \/ Pairs!Fail \/ Pairs!Kill \/ Pairs!Join \/ Pairs!Write
  BY <1>2 DEF Pairs!Start, Pairs!Issue, Pairs!Enough, Pairs!Late, Pairs!Fail, Pairs!Kill, Pairs!Join, Pairs!Write
<1>3. CASE \E w \in Pairs!Pool : Pairs!Step(w)
  BY <1>3, PairsOthersRest DEF PairsInv
<1>. QED
  BY <1>1, <1>2, <1>3 DEF Pairs!Next, Pairs!Main

LEMMA PairsStart ==
  ASSUME Pairs!ObservedAssumption, Pairs!Init
  PROVE  PairsInv /\ Pairs!ObservedAccepted
<1>. USE DEF Pairs!Init, Pairs!ObservedAssumption
<1>1. PairsTypeOK
  BY DEF PairsTypeOK, PairsPlaces, Pairs!Cleared, Pairs!Measured, Pairs!Unmeasured, Pairs!None
<1>2. engine.ids = {} /\ IsFiniteSet({}) /\ Cardinality({}) = 0
  BY FS_EmptySet
<1>3. Replayed
  BY <1>1, <1>2 DEF Replayed, Pairs!None, PairsTypeOK
<1>4. Underway
  BY DEF Underway, Pairs!Pool, Pairs!Cleared
<1>. QED
  BY <1>1, <1>3, <1>4 DEF PairsInv, Pairs!ObservedAccepted, Pairs!None

LEMMA PairsAccepted ==
  EvidenceSpec => [](part = "pairs" => Pairs!ObservedAccepted) /\ Pairs!KeptIsWhole
<1>1. EvidenceInit => PairsEvidence
  BY EvidenceAssumption, PairsStart DEF EvidenceInit, PairsEvidence
<1>2. PairsEvidence /\ [EvidenceNext]_evidenceVars => PairsEvidence'
  <2>. SUFFICES ASSUME PairsEvidence, [EvidenceNext]_evidenceVars, part' = "pairs"
               PROVE  PairsInv' /\ Pairs!ObservedAccepted'
    BY DEF PairsEvidence
  <2>1. CASE OfPairs /\ Pairs!Next
    BY <2>1, EvidenceAssumption, PairsEvidenceStep DEF OfPairs, PairsEvidence
  <2>2. CASE UNCHANGED <<part, pairsVars>>
    <3>1. UNCHANGED <<logical, workers, main, gen, shared, late, worker, engine, audit, verdict>>
      BY <2>2 DEF pairsVars
    <3>2. PairsInv /\ Pairs!ObservedAccepted
      BY <2>2 DEF PairsEvidence
    <3>3. PairsTypeOK'
      BY <3>1, <3>2 DEF PairsInv, PairsTypeOK
    <3>4. Replayed' /\ Pairs!ObservedAccepted'
      BY <3>1, <3>2 DEF PairsInv, Replayed, Pairs!ObservedAccepted
    <3>5. Underway'
      BY <3>1, <3>2 DEF PairsInv, Underway, Back, Measuring, Pairs!Pool
    <3>. QED
      BY <3>3, <3>4, <3>5 DEF PairsInv
  <2>. QED
    BY <2>1, <2>2 DEF EvidenceNext, evidenceVars, OfPool, OfPairs, OfMark, OfProbe, OfScore, OfTracker,
       OfWindow, OfLegacy, OfSensing, OfBudget
<1>3. PairsEvidence /\ [EvidenceNext]_evidenceVars =>
        [engine'.kept # engine.kept =>
           \A w \in Pairs!Pair(gen) : worker[w].whole /\ worker[w].seen = gen]_(Pairs!vars)
  <2>. SUFFICES ASSUME PairsEvidence, [EvidenceNext]_evidenceVars, engine'.kept # engine.kept
               PROVE  \A w \in Pairs!Pair(gen) : worker[w].whole /\ worker[w].seen = gen
    OBVIOUS
  <2>1. OfPairs /\ Pairs!Next
    BY DEF EvidenceNext, evidenceVars, pairsVars, OfPool, OfMark, OfProbe, OfScore, OfTracker,
       OfWindow, OfLegacy, OfSensing, OfBudget
  <2>. QED
    BY <2>1, EvidenceAssumption, PairsKeepWhole DEF OfPairs, PairsEvidence
<1>. QED
  <2>1. PairsEvidence => (part = "pairs" => Pairs!ObservedAccepted)
    BY DEF PairsEvidence
  <2>. QED
    BY <1>1, <1>2, <1>3, <2>1, PTL DEF EvidenceSpec, Pairs!KeptIsWhole

-----------------------------------------------------------------------------
(* The stages of ComputeMark.                                              *)

\* The powers of two, one by one.
PowersOfTwo == <<1, 2, 4, 8, 16, 32, 64, 128, 256, 512, 1024, 2048, 4096, 8192, 16384,
                 32768, 65536, 131072, 262144>>


LEMMA PowerIsDefined ==
  Mark!Power = [e \in 0..18 |-> IF e = 0 THEN 1 ELSE 2 * Mark!Power[e - 1]]
<1>. DEFINE P == [e \in 0..18 |-> PowersOfTwo[e + 1]]
<1>1. \A e \in 0..18 : P[e] = IF e = 0 THEN 1 ELSE 2 * P[e - 1]
  BY SMT DEF PowersOfTwo
<1>2. P = [e \in 0..18 |-> IF e = 0 THEN 1 ELSE 2 * P[e - 1]]
  BY <1>1
<1>. HIDE DEF P
<1>. QED
  BY <1>2, Zenon DEF Mark!Power

LEMMA PowerValues ==
  \A e \in 0..18 : Mark!Power[e] = PowersOfTwo[e + 1]
BY PowerIsDefined, SMT DEF PowersOfTwo

LEMMA PowerGrows ==
  /\ \A e \in 0..18 : Mark!Power[e] \in 1..Mark!Power[18]
  /\ \A e \in 0..18, f \in 0..18 : e < f => Mark!Power[e] < Mark!Power[f]
BY PowerValues, SMT DEF PowersOfTwo

\* The loop of the engine leaves, at the first power that reaches the maximum.
LEMMA DoublingsEnd ==
  ASSUME NEW maximum \in 1..Mark!Power[18]
  PROVE  /\ Mark!Doublings(maximum) \in 0..18 /\ Mark!Power[Mark!Doublings(maximum)] >= maximum
         /\ \A j \in 0..(Mark!Doublings(maximum) - 1) : Mark!Power[j] < maximum
<1>. DEFINE Reaches(k) == Mark!Power[k] >= maximum /\ \A j \in 0..(k - 1) : Mark!Power[j] < maximum
<1>1. \E k \in 0..18 : Mark!Power[k] >= maximum /\ (k = 0 \/ Mark!Power[k - 1] < maximum)
  <2>. SUFFICES ASSUME \A k \in 0..18 : Mark!Power[k] >= maximum => k # 0 /\ Mark!Power[k - 1] >= maximum
               PROVE  FALSE
    BY PowerGrows
  <2>1. Mark!Power[0] = 1
    BY PowerValues, SMT DEF PowersOfTwo
  <2>. QED
    BY <2>1, PowerGrows
<1>2. \E k \in 0..18 : Reaches(k)
  BY <1>1, PowerGrows
<1>3. Mark!Doublings(maximum) = CHOOSE k \in 0..18 : Reaches(k)
  BY DEF Mark!Doublings
<1>. HIDE DEF Reaches
<1>4. Mark!Doublings(maximum) \in 0..18 /\ Reaches(Mark!Doublings(maximum))
  BY <1>2, <1>3
<1>. QED
  BY <1>4 DEF Reaches

\* The gradient of the reader is the schedule of the engine.
LEMMA ScheduleIsGradient ==
  ASSUME claim.threads \in 1..Mark!Power[18]
  PROVE  Mark!Schedule(claim.threads) = Mark!Gradient
<1>. DEFINE maximum == claim.threads
            last == Mark!Doublings(maximum)
            below == {k \in 0..18 : Mark!Power[k] < maximum}
<1>1. last \in 0..18 /\ Mark!Power[last] >= maximum /\ \A j \in 0..(last - 1) : Mark!Power[j] < maximum
  BY DoublingsEnd
<1>2. below = 0..(last - 1)
  <2>. HIDE DEF last
  <2>1. \A k \in 0..18 : Mark!Power[k] < maximum <=> k < last
    BY <1>1, PowerGrows
  <2>. QED
    BY <1>1, <2>1
<1>3. Cardinality(0..(last - 1)) = last
  <2>. HIDE DEF last
  <2>1. last - 1 \in Int /\ last \in Nat
    BY <1>1
  <2>2. Cardinality(0..(last - 1)) = IF 0 > last - 1 THEN 0 ELSE (last - 1) - 0 + 1
    BY <2>1, FS_Interval
  <2>. QED
    BY <2>1, <2>2
<1>4. Mark!Cardinality(below) = last
  BY <1>2, <1>3 DEF Mark!Cardinality, Cardinality
<1>. HIDE DEF last
<1>. QED
  BY <1>4 DEF Mark!Schedule, Mark!Gradient, last

\* Its levels are distinct numbers of threads.
LEMMA ScheduleLevels ==
  ASSUME NEW maximum \in 1..Mark!Power[18], NEW levels, levels = Mark!Schedule(maximum)
  PROVE  /\ levels \in Seq(1..maximum) /\ Len(levels) \in 1..19
         /\ \A i \in 1..Len(levels), j \in 1..Len(levels) : i # j => levels[i] # levels[j]
<1>. DEFINE last == Mark!Doublings(maximum)
            powers == [i \in 1..last |-> Mark!Power[i - 1]]
<1>0. levels = powers \o <<maximum>>
  BY DEF Mark!Schedule
<1>1. maximum \in Nat /\ last \in 0..18 /\ \A j \in 0..(last - 1) : Mark!Power[j] < maximum
  BY DoublingsEnd, PowerGrows
<1>2. \A i \in 1..last : powers[i] \in 1..maximum /\ powers[i] < maximum
  BY <1>1, PowerGrows
<1>3. \A i \in 1..last, j \in 1..last : i # j => powers[i] # powers[j]
  BY <1>1, PowerGrows
<1>4. powers \in Seq(1..maximum) /\ Len(powers) = last
  BY <1>1, <1>2
<1>. HIDE DEF powers, last
<1>5. /\ levels \in Seq(1..maximum) /\ Len(levels) = last + 1
      /\ levels[last + 1] = maximum /\ \A i \in 1..last : levels[i] = powers[i]
  BY <1>0, <1>1, <1>4
<1>6. \A i \in 1..(last + 1), j \in 1..(last + 1) : i # j => levels[i] # levels[j]
  <2>1. \A i \in 1..(last + 1) : i = last + 1 \/ i \in 1..last
    BY <1>1
  <2>. QED
    BY <1>1, <1>2, <1>3, <1>5, <2>1
<1>. QED
  BY <1>1, <1>5, <1>6

-----------------------------------------------------------------------------
\* The stages of a run, in order.
StagesOf(kind_) == [i \in DOMAIN Mark!Schedule(claim.threads) |->
                      [kind |-> kind_, threads |-> Mark!Schedule(claim.threads)[i]]]
Plan == StagesOf("integer") \o StagesOf("fp64")
Stages == [kind : Mark!Kinds, threads : 1..claim.threads]

LEMMA PlanStages ==
  ASSUME claim.threads \in 1..Mark!Power[18]
  PROVE  /\ Plan \in Seq(Stages) /\ Len(Plan) \in Nat \ {0}
         /\ \A i \in 1..Len(Plan), j \in 1..Len(Plan) : i # j => Plan[i] # Plan[j]
         /\ {<<Plan[i].kind, Plan[i].threads>> : i \in 1..Len(Plan)} = Mark!Kinds \X Mark!ToSet(Mark!Gradient)
<1>. DEFINE levels == Mark!Schedule(claim.threads)
            n == Len(levels)
            one == StagesOf("integer")
            two == StagesOf("fp64")
<1>1. /\ levels \in Seq(1..claim.threads) /\ n \in Nat \ {0} /\ levels = Mark!Gradient /\ DOMAIN levels = 1..n
      /\ \A i \in 1..n, j \in 1..n : i # j => levels[i] # levels[j]
  <2>1. /\ levels \in Seq(1..claim.threads) /\ n \in 1..19
        /\ \A i \in 1..n, j \in 1..n : i # j => levels[i] # levels[j]
    <3>1. levels = Mark!Schedule(claim.threads)
      OBVIOUS
    <3>. HIDE DEF levels
    <3>. QED
      BY <3>1, ScheduleLevels
  <2>2. levels = Mark!Gradient
    BY ScheduleIsGradient
  <2>3. DOMAIN levels = 1..n
    <3>. HIDE DEF levels
    <3>. QED
      BY <2>1
  <2>. QED
    BY <2>1, <2>2, <2>3
<1>2. /\ one \in Seq(Stages) /\ Len(one) = n
      /\ \A i \in 1..n : one[i] = [kind |-> "integer", threads |-> levels[i]]
  BY <1>1 DEF StagesOf, Stages, Mark!Kinds
<1>3. /\ two \in Seq(Stages) /\ Len(two) = n
      /\ \A i \in 1..n : two[i] = [kind |-> "fp64", threads |-> levels[i]]
  BY <1>1 DEF StagesOf, Stages, Mark!Kinds
<1>a. \A x \in Mark!ToSet(Mark!Gradient) : \E i \in 1..n : x = levels[i]
  BY <1>1 DEF Mark!ToSet
<1>b. \A i \in 1..n : levels[i] \in Mark!ToSet(Mark!Gradient)
  BY <1>1 DEF Mark!ToSet
<1>. HIDE DEF one, two, n, levels
<1>4. /\ Plan \in Seq(Stages) /\ Len(Plan) = n + n
      /\ \A i \in 1..n : Plan[i] = one[i] /\ Plan[n + i] = two[i]
  BY <1>1, <1>2, <1>3 DEF Plan, one, two
<1>5. \A i \in 1..Len(Plan) : i \in 1..n \/ \E k \in 1..n : i = n + k
  <2>. SUFFICES ASSUME NEW i \in 1..Len(Plan), i \notin 1..n
               PROVE  i - n \in 1..n /\ i = n + (i - n)
    OBVIOUS
  <2>. QED
    BY <1>1, <1>4
<1>6. \A i \in 1..Len(Plan), j \in 1..Len(Plan) : i # j => Plan[i] # Plan[j]
  <2>. SUFFICES ASSUME NEW i \in 1..Len(Plan), NEW j \in 1..Len(Plan), Plan[i] = Plan[j]
               PROVE  i = j
    OBVIOUS
  <2>1. CASE i \in 1..n /\ j \in 1..n
    BY <1>1, <1>2, <1>4, <2>1
  <2>2. ASSUME NEW k \in 1..n, i = n + k, NEW l \in 1..n, j = n + l
        PROVE  i = j
    <3>1. Plan[i] = two[k] /\ Plan[j] = two[l]
      BY <1>4, <2>2
    <3>2. two[k].threads = levels[k] /\ two[l].threads = levels[l]
      BY <1>3
    <3>. QED
      BY <1>1, <2>2, <3>1, <3>2
  <2>3. ASSUME NEW k \in 1..n, NEW l \in 1..n, Plan[k] = Plan[n + l]
        PROVE  FALSE
    BY <1>2, <1>3, <1>4, <2>3
  <2>. QED
    BY <1>5, <2>1, <2>2, <2>3
<1>7. \A i \in 1..Len(Plan) : Plan[i].kind \in Mark!Kinds /\ Plan[i].threads \in Mark!ToSet(Mark!Gradient)
  <2>1. \A i \in 1..n : Plan[i].kind \in Mark!Kinds /\ Plan[i].threads = levels[i]
    BY <1>2, <1>4 DEF Mark!Kinds
  <2>2. \A i \in 1..n : Plan[n + i].kind \in Mark!Kinds /\ Plan[n + i].threads = levels[i]
    BY <1>3, <1>4 DEF Mark!Kinds
  <2>. QED
    BY <1>b, <1>5, <2>1, <2>2
<1>8. \A k \in Mark!Kinds, x \in Mark!ToSet(Mark!Gradient) :
        \E i \in 1..Len(Plan) : Plan[i].kind = k /\ Plan[i].threads = x
  <2>. SUFFICES ASSUME NEW k \in Mark!Kinds, NEW x \in Mark!ToSet(Mark!Gradient)
               PROVE  \E i \in 1..Len(Plan) : Plan[i].kind = k /\ Plan[i].threads = x
    OBVIOUS
  <2>1. PICK e \in 1..n : x = levels[e]
    BY <1>a
  <2>2. e \in 1..Len(Plan) /\ n + e \in 1..Len(Plan)
    BY <1>1, <1>4
  <2>3. CASE k = "integer"
    BY <1>2, <1>4, <2>1, <2>2, <2>3
  <2>4. CASE k = "fp64"
    BY <1>3, <1>4, <2>1, <2>2, <2>4
  <2>. QED
    BY <2>3, <2>4 DEF Mark!Kinds
<1>9. {<<Plan[i].kind, Plan[i].threads>> : i \in 1..Len(Plan)} = Mark!Kinds \X Mark!ToSet(Mark!Gradient)
  BY <1>7, <1>8
<1>. QED
  BY <1>1, <1>4, <1>6, <1>9
-----------------------------------------------------------------------------
\* A sample of a stage: long enough, and counted without an overflow.
Counted(sample, stage, its) ==
  /\ sample.elapsed \in Nat /\ sample.elapsed >= MinTime
  /\ sample.operations = its * stage.threads * Mark!OpsOf(stage.kind) /\ sample.operations \in 1..Word

MarkTypeOK ==
  /\ claim \in Mark!Claims /\ claim.threads <= claim.available /\ pace \in Paces
  /\ stages \in Seq(Stages) /\ marks \in Seq([workload : Mark!Kinds, threads : 1..claim.threads,
                                             iterations : Nat \ {0}, samples : Seq([elapsed : Nat, operations : Nat])])
  /\ iterations \in Nat \ {0} /\ attempt \in Nat /\ calibrated \in BOOLEAN
  /\ samples \in Seq([elapsed : Nat, operations : Nat])
  /\ status \in {"measuring", "no score", "written"} /\ score \in {"none", "accepted", "rejected"}

\* What is measured and what is still to measure are the stages of the run.
Planned ==
  /\ Len(marks) + Len(stages) = Len(Plan)
  /\ \A i \in 1..Len(stages) : stages[i] = Plan[Len(marks) + i]
  /\ \A i \in 1..Len(marks) : marks[i].workload = Plan[i].kind /\ marks[i].threads = Plan[i].threads

\* The samples of a stage all count its operations, which fit a word.
Sampled ==
  /\ \A i \in 1..Len(marks) :
       /\ Len(marks[i].samples) = Repeats
       /\ \A k \in 1..Repeats : Counted(marks[i].samples[k], Plan[i], marks[i].iterations)
  /\ Len(samples) <= Repeats /\ (samples # <<>> => calibrated)
  /\ calibrated => stages # <<>> /\ ~Mark!TooMuch
  /\ \A k \in 1..Len(samples) : Counted(samples[k], Head(stages), iterations)

MarkInv == MarkTypeOK /\ Planned /\ Sampled /\ Mark!MarkAccepted
-----------------------------------------------------------------------------
LEMMA MarkFacts ==
  ASSUME Mark!MarkAssumption, claim \in Mark!Claims
  PROVE  /\ claim.threads \in 1..Mark!Power[18] /\ claim.threads \in Nat \ {0}
         /\ {Word, MinTime, Repeats, IntOps, FpOps, First} \subseteq Nat
         /\ MinTime # 0 /\ Repeats # 0 /\ IntOps # 0 /\ FpOps # 0 /\ First # 0 /\ FpOps <= IntOps
<1>1. claim.threads \in 1..Mark!Cardinality(CpuIds)
  BY DEF Mark!Claims
<1>2. Mark!Cardinality(CpuIds) <= Mark!Power[18] /\ Mark!Cardinality(CpuIds) \in Nat
  <2>1. Mark!IsFiniteSet(CpuIds) => IsFiniteSet(CpuIds)
    BY DEF Mark!IsFiniteSet, IsFiniteSet
  <2>2. Mark!Cardinality(CpuIds) = Cardinality(CpuIds)
    BY DEF Mark!Cardinality, Cardinality
  <2>. QED
    BY <2>1, <2>2, FS_CardinalityType DEF Mark!MarkAssumption
<1>3. Mark!Power[18] \in Nat
  BY PowerGrows
<1>. QED
  BY <1>1, <1>2, <1>3 DEF Mark!MarkAssumption

\* What passes the guard of the calibration is counted without an overflow.
LEMMA GuardedFits ==
  ASSUME Mark!MarkAssumption, claim \in Mark!Claims, iterations \in Nat \ {0},
         stages # <<>>, Head(stages) \in Stages, ~Mark!TooMuch
  PROVE  /\ Mark!Operations = iterations * Head(stages).threads * Mark!OpsOf(Head(stages).kind)
         /\ Mark!Operations \in 1..Word
<1>. DEFINE th == Head(stages).threads
            factor == Mark!OpsOf(Head(stages).kind)
            lanes == th * IntOps
            count == iterations * th
<1>1. /\ th \in Nat \ {0} /\ IntOps \in Nat \ {0} /\ factor \in Nat \ {0} /\ factor <= IntOps /\ Word \in Nat
  BY MarkFacts DEF Stages, Mark!OpsOf
<1>2. iterations <= Word \div lanes
  <2>1. lanes \in Nat \ {0}
    BY <1>1
  <2>3. ~(iterations > Word \div lanes)
    BY DEF Mark!TooMuch, Mark!Stage
  <2>a. Word \in Int
    BY <1>1
  <2>. HIDE DEF lanes
  <2>2. (Word \div lanes) \in Int
    BY <2>a, <2>1, Quotient
  <2>. QED
    BY <2>2, <2>3
<1>. HIDE DEF th, factor
<1>3. iterations * lanes <= Word
  <2>. DEFINE most == Word \div lanes
  <2>1. lanes \in Nat \ {0}
    BY <1>1
  <2>2. most \in Int /\ most * lanes <= Word
    <3>1. Word \in Int
      BY <1>1
    <3>. HIDE DEF lanes
    <3>. QED
      BY <2>1, <3>1, Quotient
  <2>. HIDE DEF most, lanes
  <2>3. iterations * lanes <= most * lanes
    BY <1>2, <2>1, <2>2 DEF most
  <2>. QED
    BY <1>1, <2>1, <2>2, <2>3
<1>4. count \in Nat \ {0} /\ count * IntOps = iterations * lanes
  BY <1>1
<1>. HIDE DEF count, lanes
<1>5. count * factor <= count * IntOps /\ count * factor \in Nat \ {0}
  BY <1>1, <1>4
<1>. DEFINE total == count * factor
<1>6. total \in 1..Word
  BY <1>1, <1>3, <1>4, <1>5
<1>. HIDE DEF total
<1>7. total % (Word + 1) = total
  BY <1>1, <1>6
<1>8. Mark!Operations = total % (Word + 1) /\ total = iterations * th * factor
  BY DEF Mark!Operations, Mark!Stage, total, count, factor, th
<1>. QED
  BY <1>6, <1>7, <1>8 DEF th, factor
-----------------------------------------------------------------------------
LEMMA EmptySamples == <<>> \in Seq([elapsed : Nat, operations : Nat]) /\ Len(<<>>) = 0
OBVIOUS

\* A sample that is too short starts the stage over.
LEMMA MarkAgain ==
  ASSUME Mark!MarkAssumption, MarkInv, status = "measuring", Mark!Again
  PROVE  MarkInv'
<1>1. iterations' \in Nat \ {0} /\ attempt' \in Nat
  BY DEF Mark!Again, MarkInv, MarkTypeOK
<1>2. MarkTypeOK'
  <2>1. calibrated' = FALSE /\ samples' = <<>> /\ UNCHANGED <<claim, pace, stages, marks, status, score>>
    BY DEF Mark!Again
  <2>. QED
    <3>1. calibrated' \in BOOLEAN
      BY <2>1
    <3>3. samples' \in Seq([elapsed : Nat, operations : Nat])
      BY <2>1, EmptySamples
    <3>2. UNCHANGED <<claim, pace, stages, marks, status, score>>
      BY <2>1
    <3>. QED
      BY <1>1, <3>1, <3>2, <3>3 DEF MarkInv, MarkTypeOK, Stages
<1>3. Planned' /\ Mark!MarkAccepted'
  BY DEF Mark!Again, MarkInv, Planned, Plan, StagesOf, Mark!MarkAccepted
<1>4. Repeats \in Nat /\ Len(<<>>) = 0
  BY DEF Mark!MarkAssumption
<1>5. Sampled'
  <2>1. calibrated' = FALSE /\ samples' = <<>> /\ UNCHANGED <<claim, stages, marks>>
    BY DEF Mark!Again
  <2>2. \A i \in 1..Len(marks) : /\ Len(marks[i].samples) = Repeats
                                 /\ \A k \in 1..Repeats : Counted(marks[i].samples[k], Plan[i], marks[i].iterations)'
    BY <2>1 DEF MarkInv, Sampled, Counted, Plan, StagesOf
  <2>. QED
    BY <1>4, <2>1, <2>2 DEF Sampled
<1>. QED
  BY <1>2, <1>3, <1>5 DEF MarkInv

LEMMA MarkFails ==
  ASSUME MarkInv, Mark!Fails
  PROVE  MarkInv'
<1>1. MarkTypeOK'
  BY DEF Mark!Fails, MarkInv, MarkTypeOK, Stages
<1>2. Planned' /\ Mark!MarkAccepted'
  BY DEF Mark!Fails, MarkInv, Planned, Plan, StagesOf, Mark!MarkAccepted
<1>3. Sampled'
  BY DEF Mark!Fails, MarkInv, Sampled, Counted, Plan, StagesOf, Mark!TooMuch, Mark!Stage
<1>. QED
  BY <1>1, <1>2, <1>3 DEF MarkInv

LEMMA MarkCalibrate ==
  ASSUME Mark!MarkAssumption, MarkInv, Mark!Calibrate
  PROVE  MarkInv'
<1>1. status = "measuring" /\ stages # <<>>
  BY DEF Mark!Calibrate
<1>2. \/ Mark!Fails \/ Mark!Again
      \/ /\ ~Mark!TooMuch /\ calibrated' = TRUE
         /\ UNCHANGED <<claim, pace, stages, iterations, attempt, samples, marks, status, score>>
  BY DEF Mark!Calibrate
<1>3. CASE /\ ~Mark!TooMuch /\ calibrated' = TRUE
           /\ UNCHANGED <<claim, pace, stages, iterations, attempt, samples, marks, status, score>>
  <2>1. MarkTypeOK'
    BY <1>3 DEF MarkInv, MarkTypeOK, Stages
  <2>2. Planned' /\ Mark!MarkAccepted'
    BY <1>3 DEF MarkInv, Planned, Plan, StagesOf, Mark!MarkAccepted
  <2>3. Sampled'
    BY <1>1, <1>3 DEF MarkInv, Sampled, Counted, Plan, StagesOf, Mark!TooMuch, Mark!Stage
  <2>. QED
    BY <2>1, <2>2, <2>3 DEF MarkInv
<1>. QED
  BY <1>1, <1>2, <1>3, MarkAgain, MarkFails

LEMMA MarkTake ==
  ASSUME Mark!MarkAssumption, MarkInv, Mark!Take
  PROVE  MarkInv'
<1>1. status = "measuring" /\ stages # <<>> /\ calibrated /\ Len(samples) < Repeats
  BY DEF Mark!Take
<1>2. CASE Mark!Fails \/ Mark!Again
  BY <1>1, <1>2, MarkAgain, MarkFails
<1>3. ASSUME NEW t \in Mark!Times, ~(t < MinTime),
             samples' = Append(samples, [elapsed |-> t, operations |-> Mark!Operations]),
             UNCHANGED <<claim, pace, stages, iterations, attempt, calibrated, marks, status, score>>
      PROVE  MarkInv'
  <2>. DEFINE sample == [elapsed |-> t, operations |-> Mark!Operations]
  <2>1. /\ claim \in Mark!Claims /\ iterations \in Nat \ {0} /\ stages \in Seq(Stages) /\ pace \in Paces
        /\ samples \in Seq([elapsed : Nat, operations : Nat]) /\ ~Mark!TooMuch
    BY <1>1 DEF MarkInv, MarkTypeOK, Sampled
  <2>2. Head(stages) \in Stages
    BY <1>1, <2>1
  <2>3. /\ Mark!Operations = iterations * Head(stages).threads * Mark!OpsOf(Head(stages).kind)
        /\ Mark!Operations \in 1..Word /\ Word \in Nat /\ MinTime \in Nat /\ Repeats \in Nat
    BY <1>1, <2>1, <2>2, GuardedFits, MarkFacts
  <2>4. t \in Nat /\ t >= MinTime
    <3>1. pace \in Nat \ {0}
      BY <2>1 DEF Mark!MarkAssumption
    <3>2. iterations \div pace \in Int
      BY <2>1, <3>1, Quotient
    <3>3. t \in Int /\ t > 0
      BY <3>2 DEF Mark!Times
    <3>. QED
      BY <1>3, <2>3, <3>3
  <2>5. Counted(sample, Head(stages), iterations) /\ sample \in [elapsed : Nat, operations : Nat]
    BY <2>3, <2>4 DEF Counted
  <2>. HIDE DEF sample
  <2>6. /\ samples' \in Seq([elapsed : Nat, operations : Nat]) /\ Len(samples') = Len(samples) + 1
        /\ \A k \in 1..Len(samples) : samples'[k] = samples[k]
        /\ samples'[Len(samples) + 1] = sample
    <3>1. samples' = Append(samples, sample)
      BY <1>3 DEF sample
    <3>. QED
      BY <2>1, <2>5, <3>1
  <2>7. MarkTypeOK'
    BY <1>3, <2>6 DEF MarkInv, MarkTypeOK, Stages
  <2>8. Planned' /\ Mark!MarkAccepted'
    BY <1>3 DEF MarkInv, Planned, Plan, StagesOf, Mark!MarkAccepted
  <2>9. \A k \in 1..Len(samples') : Counted(samples'[k], Head(stages), iterations)
    <3>1. \A k \in 1..Len(samples) : Counted(samples[k], Head(stages), iterations)
      BY DEF MarkInv, Sampled
    <3>2. \A k \in 1..Len(samples') : k \in 1..Len(samples) \/ k = Len(samples) + 1
      BY <2>1, <2>6
    <3>. QED
      BY <2>5, <2>6, <3>1, <3>2
  <2>10. Len(samples') <= Repeats
    BY <1>1, <2>1, <2>3, <2>6
  <2>11. Sampled'
    <3>1. \A k \in 1..Len(samples') : Counted(samples[k], Head(stages), iterations)'
      BY <1>3, <2>9 DEF Counted
    <3>2. \A i \in 1..Len(marks) : /\ Len(marks[i].samples) = Repeats
                                   /\ \A k \in 1..Repeats : Counted(marks[i].samples[k], Plan[i], marks[i].iterations)'
      BY <1>3 DEF MarkInv, Sampled, Counted, Plan, StagesOf
    <3>. QED
      BY <1>1, <1>3, <2>1, <2>10, <3>1, <3>2 DEF Sampled, Mark!TooMuch, Mark!Stage
  <2>. QED
    BY <2>7, <2>8, <2>11 DEF MarkInv
<1>. QED
  BY <1>2, <1>3 DEF Mark!Take

LEMMA MarkNextStage ==
  ASSUME Mark!MarkAssumption, MarkInv, Mark!NextStage
  PROVE  MarkInv'
<1>. DEFINE Record == [workload : Mark!Kinds, threads : 1..claim.threads,
                       iterations : Nat \ {0}, samples : Seq([elapsed : Nat, operations : Nat])]
            stage == Head(stages)
            mark == [workload |-> stage.kind, threads |-> stage.threads,
                     iterations |-> iterations, samples |-> samples]
            m == Len(marks)
            n == Len(stages)
<1>1. /\ status = "measuring" /\ stages # <<>> /\ calibrated /\ Len(samples) = Repeats
      /\ marks' = Append(marks, mark) /\ stages' = Tail(stages) /\ iterations' = First /\ attempt' = 1
      /\ calibrated' = FALSE /\ samples' = <<>> /\ UNCHANGED <<claim, pace, status, score>>
  BY DEF Mark!NextStage, Mark!Stage
<1>2. /\ stages \in Seq(Stages) /\ marks \in Seq(Record) /\ iterations \in Nat \ {0} /\ claim \in Mark!Claims
      /\ samples \in Seq([elapsed : Nat, operations : Nat])
  BY DEF MarkInv, MarkTypeOK
<1>3. stage \in Stages /\ n \in Nat \ {0} /\ m \in Nat /\ stage = stages[1]
  BY <1>1, <1>2
<1>4. mark \in Record
  BY <1>2, <1>3 DEF Stages
<1>5. /\ marks' \in Seq(Record) /\ Len(marks') = m + 1 /\ marks'[m + 1] = mark
      /\ \A i \in 1..m : marks'[i] = marks[i]
  <2>. HIDE DEF mark, Record
  <2>. QED
    BY <1>1, <1>2, <1>4
<1>6. stages' \in Seq(Stages) /\ Len(stages') = n - 1 /\ \A i \in 1..(n - 1) : stages'[i] = stages[i + 1]
  <2>. HIDE DEF mark, Record
  <2>. QED
    BY <1>1, <1>2, <1>3
<1>7. First \in Nat \ {0} /\ Repeats \in Nat
  BY <1>2, MarkFacts
<1>8. /\ m + n = Len(Plan) /\ \A i \in 1..n : stages[i] = Plan[m + i]
      /\ \A i \in 1..m : marks[i].workload = Plan[i].kind /\ marks[i].threads = Plan[i].threads
      /\ Plan' = Plan
  BY <1>1 DEF MarkInv, Planned, Plan, StagesOf
<1>9. stage = Plan[m + 1]
  BY <1>3, <1>8
<1>a. mark.workload = stage.kind /\ mark.threads = stage.threads /\ mark.iterations = iterations /\ mark.samples = samples
  OBVIOUS
<1>b. \A i \in 1..(m + 1) : i \in 1..m \/ i = m + 1
  BY <1>3
<1>. HIDE DEF mark, stage
<1>10. MarkTypeOK'
  <2>1. calibrated' \in BOOLEAN /\ samples' \in Seq([elapsed : Nat, operations : Nat])
    BY <1>1, EmptySamples, Zenon
  <2>2. UNCHANGED <<claim, pace, status, score>> /\ iterations' \in Nat \ {0} /\ attempt' \in Nat
    BY <1>1, <1>7
  <2>. QED
    BY <1>5, <1>6, <2>1, <2>2 DEF MarkInv, MarkTypeOK, Stages
<1>11. Planned'
  <2>1. Len(marks') + Len(stages') = Len(Plan)
    <3>1. m \in Int /\ n \in Int /\ m + n = Len(Plan) /\ Len(marks') = m + 1 /\ Len(stages') = n - 1
      BY <1>3, <1>5, <1>6, <1>8
    <3>. HIDE DEF m, n
    <3>. QED
      BY <3>1
  <2>2. \A i \in 1..Len(stages') : stages'[i] = Plan[Len(marks') + i]
    <3>. SUFFICES ASSUME NEW i \in 1..Len(stages')
                 PROVE  stages'[i] = Plan[Len(marks') + i]
      OBVIOUS
    <3>1. i \in 1..(n - 1) /\ i + 1 \in 1..n /\ m + (i + 1) = (m + 1) + i
      BY <1>3, <1>6
    <3>. QED
      BY <1>5, <1>6, <1>8, <3>1
  <2>3. \A i \in 1..Len(marks') : marks'[i].workload = Plan[i].kind /\ marks'[i].threads = Plan[i].threads
    BY <1>5, <1>8, <1>9, <1>a, <1>b
  <2>. QED
    BY <1>8, <2>1, <2>2, <2>3 DEF Planned
<1>12. Sampled'
  <2>1. \A i \in 1..m : /\ Len(marks[i].samples) = Repeats
                        /\ \A k \in 1..Repeats : Counted(marks[i].samples[k], Plan[i], marks[i].iterations)
    BY DEF MarkInv, Sampled
  <2>2. \A k \in 1..Repeats : Counted(samples[k], stage, iterations)
    BY <1>1 DEF MarkInv, Sampled, stage
  <2>3. \A i \in 1..Len(marks') : /\ Len(marks'[i].samples) = Repeats
                                  /\ \A k \in 1..Repeats : Counted(marks'[i].samples[k], Plan[i], marks'[i].iterations)
    BY <1>1, <1>5, <1>9, <1>a, <1>b, <2>1, <2>2
  <2>4. \A i \in 1..Len(marks') : \A k \in 1..Repeats : Counted(marks[i].samples[k], Plan[i], marks[i].iterations)'
    BY <1>8, <2>3 DEF Counted
  <2>5. /\ Len(samples') = 0 /\ samples' = <<>> /\ calibrated' = FALSE
    BY <1>1, EmptySamples
  <2>. QED
    BY <1>7, <2>3, <2>4, <2>5 DEF Sampled
<1>13. Mark!MarkAccepted'
  BY <1>1 DEF Mark!MarkAccepted
<1>. QED
  BY <1>10, <1>11, <1>12, <1>13 DEF MarkInv

\* What an engine claims of its placement and its clock is what the reader asks.
LEMMA ClaimAccepted ==
  ASSUME Mark!MarkAssumption, claim \in Mark!Claims, claim.threads <= claim.available
  PROVE  Mark!PlacementAccepted /\ Mark!TimerAccepted
<1>1. CASE claim \in {[policy |-> "linux-pinned", os |-> "Linux", timer |-> "CLOCK_MONOTONIC", pinned |-> TRUE,
                      cpus |-> c, available |-> Mark!Cardinality(c), threads |-> n] :
                        c \in (SUBSET CpuIds) \ {{}}, n \in 1..Mark!Cardinality(CpuIds)}
  BY <1>1 DEF Mark!PlacementAccepted, Mark!TimerAccepted
<1>2. CASE claim \in {[policy |-> "windows-pinned-process-group", os |-> "Windows",
                      timer |-> "QueryPerformanceCounter", pinned |-> TRUE,
                      cpus |-> c, available |-> Mark!Cardinality(c), threads |-> n] :
                        c \in {s \in SUBSET CpuIds : \E id \in s : \A other \in s : other \div 64 = id \div 64},
                        n \in 1..Mark!Cardinality(CpuIds)}
  <2>1. PICK c \in {s \in SUBSET CpuIds : \E id \in s : \A other \in s : other \div 64 = id \div 64},
             n \in 1..Mark!Cardinality(CpuIds) :
               claim = [policy |-> "windows-pinned-process-group", os |-> "Windows",
                        timer |-> "QueryPerformanceCounter", pinned |-> TRUE,
                        cpus |-> c, available |-> Mark!Cardinality(c), threads |-> n]
    BY <1>2
  <2>2. PICK id \in c : \A other \in c : other \div 64 = id \div 64
    OBVIOUS
  <2>3. {other \div 64 : other \in c} = {id \div 64}
    BY <2>2
  <2>4. Mark!Cardinality({other \div 64 : other \in c}) = 1
    <3>1. Cardinality({id \div 64}) = 1
      BY FS_Singleton
    <3>. QED
      BY <2>3, <3>1 DEF Mark!Cardinality, Cardinality
  <2>. QED
    BY <2>1, <2>2, <2>4 DEF Mark!PlacementAccepted, Mark!TimerAccepted
<1>3. CASE claim \in {[policy |-> "macos-qos-user-initiated", os |-> "Darwin", timer |-> "CLOCK_MONOTONIC",
                      pinned |-> FALSE, cpus |-> {}, available |-> a, threads |-> n] :
                        a \in 1..Mark!Cardinality(CpuIds), n \in 1..Mark!Cardinality(CpuIds)}
  BY <1>3 DEF Mark!PlacementAccepted, Mark!TimerAccepted
<1>. QED
  BY <1>1, <1>2, <1>3 DEF Mark!Claims

\* The reader finds every stage of the run, once, with its samples.
LEMMA MarksAccepted ==
  ASSUME Mark!MarkAssumption, MarkInv, stages = <<>>
  PROVE  Mark!Accepted
<1>. DEFINE m == Len(marks)
            keys == {<<r.workload, r.threads>> : r \in Mark!ToSet(marks)}
            key == [i \in 1..m |-> <<Plan[i].kind, Plan[i].threads>>]
<1>1. /\ claim \in Mark!Claims /\ claim.threads <= claim.available /\ DOMAIN marks = 1..m /\ m \in Nat
      /\ \A i \in 1..m : marks[i].iterations \in Nat \ {0} /\ marks[i].samples \in Seq([elapsed : Nat, operations : Nat])
  <2>. DEFINE Record == [workload : Mark!Kinds, threads : 1..claim.threads,
                         iterations : Nat \ {0}, samples : Seq([elapsed : Nat, operations : Nat])]
  <2>1. claim \in Mark!Claims /\ claim.threads <= claim.available /\ marks \in Seq(Record)
    BY DEF MarkInv, MarkTypeOK
  <2>2. \A r \in Record : r.iterations \in Nat \ {0} /\ r.samples \in Seq([elapsed : Nat, operations : Nat])
    OBVIOUS
  <2>. HIDE DEF Record
  <2>3. DOMAIN marks = 1..m /\ m \in Nat /\ \A i \in 1..m : marks[i] \in Record
    BY <2>1
  <2>. QED
    BY <2>1, <2>2, <2>3
<1>2. claim.threads \in 1..Mark!Power[18]
  BY <1>1, MarkFacts
<1>3. m = Len(Plan) /\ \A i \in 1..m : marks[i].workload = Plan[i].kind /\ marks[i].threads = Plan[i].threads
  <2>1. m + 0 = Len(Plan)
    BY EmptySamples DEF MarkInv, Planned
  <2>. QED
    BY <1>1, <2>1 DEF MarkInv, Planned
<1>4. /\ Plan \in Seq(Stages) /\ \A i \in 1..m, j \in 1..m : i # j => Plan[i] # Plan[j]
      /\ {<<Plan[i].kind, Plan[i].threads>> : i \in 1..m} = Mark!Kinds \X Mark!ToSet(Mark!Gradient)
  BY <1>2, <1>3, PlanStages
<1>5. \A i \in 1..m : Plan[i].kind \in Mark!Kinds /\ Plan[i].threads \in Mark!ToSet(Mark!Gradient) /\ Plan[i] \in Stages
  <2>. SUFFICES ASSUME NEW i \in 1..m
               PROVE  Plan[i].kind \in Mark!Kinds /\ Plan[i].threads \in Mark!ToSet(Mark!Gradient) /\ Plan[i] \in Stages
    OBVIOUS
  <2>1. Plan[i] \in Stages
    BY <1>3, <1>4
  <2>2. <<Plan[i].kind, Plan[i].threads>> \in Mark!Kinds \X Mark!ToSet(Mark!Gradient)
    BY <1>4
  <2>. QED
    BY <2>1, <2>2
<1>6. Mark!ToSet(marks) = {marks[i] : i \in 1..m}
  BY <1>1 DEF Mark!ToSet
<1>7. keys = {<<Plan[i].kind, Plan[i].threads>> : i \in 1..m}
  BY <1>3, <1>6
<1>8. Mark!Cardinality(keys) = m
  <2>1. \A i \in 1..m, j \in 1..m : key[i] = key[j] => i = j
    <3>1. \A i \in 1..m, j \in 1..m : Plan[i].kind = Plan[j].kind /\ Plan[i].threads = Plan[j].threads => i = j
      BY <1>4, <1>5 DEF Stages
    <3>. QED
      BY <3>1
  <2>2. key \in Bijection(1..m, keys)
    BY <1>7, <2>1 DEF Bijection, Injection, Surjection, IsInjective
  <2>3. IsFiniteSet(1..m) /\ Cardinality(1..m) = m
    BY <1>1, FS_Interval
  <2>4. Cardinality(keys) = m
    BY <2>2, <2>3, FS_Bijection DEF ExistsBijection
  <2>. QED
    BY <2>4 DEF Mark!Cardinality, Cardinality
<1>9. \A i \in 1..m : Mark!RecordAccepted(marks[i])
  <2>. SUFFICES ASSUME NEW i \in 1..m
               PROVE  Mark!RecordAccepted(marks[i])
    OBVIOUS
  <2>1. /\ Len(marks[i].samples) = Repeats /\ Repeats \in Nat
        /\ \A k \in 1..Repeats : Counted(marks[i].samples[k], Plan[i], marks[i].iterations)
    BY <1>1, MarkFacts DEF MarkInv, Sampled
  <2>2. DOMAIN marks[i].samples = 1..Repeats
    BY <1>1, <2>1
  <2>. QED
    BY <1>1, <1>3, <1>5, <2>1, <2>2 DEF Mark!RecordAccepted, Counted
<1>10. \A r \in Mark!ToSet(marks) : Mark!RecordAccepted(r)
  BY <1>6, <1>9
<1>11. Mark!PlacementAccepted /\ Mark!TimerAccepted /\ Mark!Schedule(claim.threads) = Mark!Gradient
  BY <1>1, <1>2, ClaimAccepted, ScheduleIsGradient
<1>12. keys = Mark!Kinds \X Mark!ToSet(Mark!Gradient)
  BY <1>4, <1>7
<1>. QED
  BY <1>8, <1>10, <1>11, <1>12 DEF Mark!Accepted

LEMMA MarkWrite ==
  ASSUME Mark!MarkAssumption, MarkInv, Mark!Write
  PROVE  MarkInv'
<1>1. /\ \/ status' = "no score" /\ UNCHANGED score
         \/ status' = "written" /\ score' = "accepted"
      /\ UNCHANGED <<claim, pace, stages, iterations, attempt, calibrated, samples, marks>>
  BY MarksAccepted DEF Mark!Write
<1>2. MarkTypeOK'
  BY <1>1 DEF MarkInv, MarkTypeOK, Stages
<1>3. Planned'
  BY <1>1 DEF MarkInv, Planned, Plan, StagesOf
<1>4. Sampled'
  BY <1>1 DEF MarkInv, Sampled, Counted, Plan, StagesOf, Mark!TooMuch, Mark!Stage
<1>. QED
  BY <1>1, <1>2, <1>3, <1>4 DEF MarkInv, Mark!MarkAccepted

LEMMA MarkStep ==
  ASSUME Mark!MarkAssumption, MarkInv, Mark!Next
  PROVE  MarkInv'
BY MarkFails, MarkCalibrate, MarkTake, MarkNextStage, MarkWrite DEF Mark!Next, Mark!Refused

LEMMA MarkStart ==
  ASSUME Mark!MarkAssumption, Mark!Init
  PROVE  MarkInv
<1>1. /\ claim \in Mark!Claims /\ claim.threads <= claim.available /\ pace \in Paces
      /\ stages = Plan /\ iterations = First /\ attempt = 1 /\ calibrated = FALSE /\ samples = <<>>
      /\ marks = <<>> /\ status = "measuring" /\ score = "none"
  BY DEF Mark!Init, Plan, StagesOf
<1>2. Plan \in Seq(Stages) /\ Len(Plan) \in Nat /\ First \in Nat \ {0} /\ Repeats \in Nat
  BY <1>1, MarkFacts, PlanStages
<1>3. MarkTypeOK
  <2>. DEFINE Record == [workload : Mark!Kinds, threads : 1..claim.threads,
                         iterations : Nat \ {0}, samples : Seq([elapsed : Nat, operations : Nat])]
  <2>1. marks \in Seq(Record)
    <3>. HIDE DEF Record
    <3>. QED
      BY <1>1
  <2>2. samples \in Seq([elapsed : Nat, operations : Nat]) /\ attempt \in Nat
    BY <1>1, EmptySamples
  <2>3. calibrated \in BOOLEAN
    BY <1>1
  <2>4. status \in {"measuring", "no score", "written"} /\ score \in {"none", "accepted", "rejected"}
    BY <1>1
  <2>. QED
    BY <1>1, <1>2, <2>1, <2>2, <2>3, <2>4 DEF MarkTypeOK
<1>4. Planned
  BY <1>1, <1>2 DEF Planned
<1>5. Sampled
  BY <1>1, <1>2 DEF Sampled
<1>. QED
  BY <1>1, <1>3, <1>4, <1>5 DEF MarkInv, Mark!MarkAccepted

MarkEvidence == part = "mark" => MarkInv

LEMMA MarkIsAccepted ==
  EvidenceSpec => [](part = "mark" => Mark!MarkAccepted)
<1>1. EvidenceInit => MarkEvidence
  BY EvidenceAssumption, MarkStart DEF EvidenceInit, MarkEvidence
<1>2. MarkEvidence /\ [EvidenceNext]_evidenceVars => MarkEvidence'
  <2>. SUFFICES ASSUME MarkEvidence, [EvidenceNext]_evidenceVars, part' = "mark"
               PROVE  MarkInv'
    BY DEF MarkEvidence
  <2>1. CASE OfMark /\ Mark!Next
    BY <2>1, EvidenceAssumption, MarkStep DEF OfMark, MarkEvidence
  <2>2. CASE UNCHANGED <<part, markVars>>
    <3>1. UNCHANGED <<claim, pace, stages, iterations, attempt, calibrated, samples, marks, status, score>>
      BY <2>2 DEF markVars
    <3>2. MarkInv
      BY <2>2 DEF MarkEvidence
    <3>3. MarkTypeOK'
      BY <3>1, <3>2 DEF MarkInv, MarkTypeOK, Stages
    <3>4. Planned' /\ Mark!MarkAccepted'
      BY <3>1, <3>2 DEF MarkInv, Planned, Plan, StagesOf, Mark!MarkAccepted
    <3>5. Sampled'
      BY <3>1, <3>2 DEF MarkInv, Sampled, Counted, Plan, StagesOf, Mark!TooMuch, Mark!Stage
    <3>. QED
      BY <3>3, <3>4, <3>5 DEF MarkInv
  <2>. QED
    BY <2>1, <2>2 DEF EvidenceNext, evidenceVars, OfPool, OfPairs, OfMark, OfProbe, OfScore, OfTracker,
       OfWindow, OfLegacy, OfSensing, OfBudget
<1>3. MarkEvidence => (part = "mark" => Mark!MarkAccepted)
  BY DEF MarkEvidence, MarkInv
<1>. QED
  BY <1>1, <1>2, <1>3, PTL DEF EvidenceSpec

(* What the engines publish is accepted by their readers, for any number   *)
(* of CPUs, threads, attempts and samples (intercore_observed.h,           *)
(* intercore_observed.py; test_cpu_multi.c, compute_score.py).             *)
THEOREM PublishedIsSoundHolds ==
  EvidenceSpec => PublishedIsSound
BY PairsAccepted, MarkIsAccepted, PTL DEF PublishedIsSound

=============================================================================
