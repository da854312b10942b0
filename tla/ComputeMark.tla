----------------------------- MODULE ComputeMark -----------------------------
(***************************************************************************)
(* A ComputeMark run from the thread gradient to the score: the engine     *)
(* calibrates and measures every workload at every stage of the gradient   *)
(* (src/test_cpu_multi.c, src/thread_schedule.h) and the strict reader     *)
(* recomputes the score from the counted operations and the raw times      *)
(* (compute_score.py).  One measurement is a step here; ComputeGate models *)
(* the threads inside it.                                                  *)
(*                                                                         *)
(* The engine counts in unsigned words 0..Word, the reader in unbounded    *)
(* integers.  The machine does `speed' iterations a unit of time, give or  *)
(* take a unit from one measurement to the next.                           *)
(***************************************************************************)
EXTENDS Integers, Sequences, FiniteSets, SequencesExt

CONSTANTS
  Word,         \* UINT64_MAX in the code
  First,        \* iterations of the first calibration, 32768 in the code
  Attempts,     \* calibrations of one stage, 32 in the code
  MinTime,      \* CM_MIN_NS, 100 ms in the code
  Repeats,      \* CM_REPEATS, 10 in the code
  IntOps, FpOps,\* operations of an iteration, 24 and 12 in the code
  CpuIds,       \* CPU numbers of the machine
  Speeds        \* iterations a unit of time

VARIABLES
  claim,        \* what the engine knows of its placement before it measures
  speed,
  todo,         \* stages still to measure
  iterations, attempt,   \* calibration of the stage at the head of todo
  calibrated,   \* that stage is calibrated
  samples,      \* and its samples so far
  records,      \* finished stages
  status,       \* "measuring", "no score", "written"
  score         \* what the reader makes of the written file

vars == <<claim, speed, todo, iterations, attempt, calibrated, samples, records, status, score>>

Kinds == {"integer", "fp64"}
OpsOf(kind) == IF kind = "integer" THEN IntOps ELSE FpOps

\* 2 to an exponent, of those a gradient can have.
Power[e \in 0..18] == IF e = 0 THEN 1 ELSE 2 * Power[e - 1]

\* Of the constants.  The guard of the integer operations serves both workloads,
\* and cm_thread_schedule takes at most 262144 threads.
MarkAssumption ==
  /\ Word \in Nat /\ {First, Attempts, MinTime, Repeats, IntOps, FpOps} \subseteq Nat \ {0}
  /\ FpOps <= IntOps /\ Speeds \subseteq Nat \ {0}
  /\ CpuIds \subseteq Nat /\ IsFiniteSet(CpuIds) /\ Cardinality(CpuIds) <= Power[18]

\* cm_thread_schedule: the powers of two until one reaches the maximum, then the maximum.
Doublings(maximum) ==
  CHOOSE k \in 0..18 : Power[k] >= maximum /\ \A j \in 0..(k - 1) : Power[j] < maximum
Schedule(maximum) == [i \in 1..Doublings(maximum) |-> Power[i - 1]] \o <<maximum>>

\* What each platform's engine claims: the CPU numbers it was allowed and pins
\* to, on Windows those of one group; macOS counts its slots and claims none.
Claims ==
  {[policy |-> "linux-pinned", os |-> "Linux", timer |-> "CLOCK_MONOTONIC", pinned |-> TRUE,
    cpus |-> c, available |-> Cardinality(c), threads |-> n] :
      c \in (SUBSET CpuIds) \ {{}}, n \in 1..Cardinality(CpuIds)}
  \union
  {[policy |-> "windows-pinned-process-group", os |-> "Windows",
    timer |-> "QueryPerformanceCounter", pinned |-> TRUE,
    cpus |-> c, available |-> Cardinality(c), threads |-> n] :
      c \in {s \in SUBSET CpuIds : \E id \in s : \A other \in s : other \div 64 = id \div 64},
      n \in 1..Cardinality(CpuIds)}
  \union
  {[policy |-> "macos-qos-user-initiated", os |-> "Darwin", timer |-> "CLOCK_MONOTONIC",
    pinned |-> FALSE, cpus |-> {}, available |-> a, threads |-> n] :
      a \in 1..Cardinality(CpuIds), n \in 1..Cardinality(CpuIds)}

\* The engine refuses more threads than it is allowed CPUs.
Init ==
  /\ claim \in {c \in Claims : c.threads <= c.available} /\ speed \in Speeds
  /\ LET levels == Schedule(claim.threads)
         stages(kind) == [i \in DOMAIN levels |-> [kind |-> kind, threads |-> levels[i]]]
     IN  todo = stages("integer") \o stages("fp64")
  /\ iterations = First /\ attempt = 1 /\ calibrated = FALSE /\ samples = <<>>
  /\ records = <<>> /\ status = "measuring" /\ score = "none"

Stage == Head(todo)
\* Mutant: the bound of the lighter operation for both.
TooMuchForFp == iterations > Word \div (Stage.threads * FpOps)
\* The product the engine is about to form, and the one it would form.
TooMuch == iterations > Word \div (Stage.threads * IntOps)
Operations == (iterations * Stage.threads * OpsOf(Stage.kind)) % (Word + 1)

Fails ==
  /\ status' = "no score"
  /\ UNCHANGED <<claim, speed, todo, iterations, attempt, calibrated, samples, records, score>>

\* A time that is too short starts the stage over with twice the work.
Again ==
  /\ attempt < Attempts
  /\ iterations' = 2 * iterations /\ attempt' = attempt + 1 /\ calibrated' = FALSE /\ samples' = <<>>
  /\ UNCHANGED <<claim, speed, todo, records, status, score>>

Times == {t \in (iterations \div speed)..(iterations \div speed + 1) : t > 0}

\* measure() fails when a thread cannot be created, pinned or verified.
Refused == status = "measuring" /\ todo # <<>> /\ Fails

\* The product is looked at before every calibration.
Calibrate ==
  /\ status = "measuring" /\ todo # <<>> /\ ~calibrated
  /\ IF TooMuch THEN Fails
     ELSE \E t \in Times :
            IF t < MinTime THEN Again \/ (attempt = Attempts /\ Fails)
            ELSE /\ calibrated' = TRUE
                 /\ UNCHANGED <<claim, speed, todo, iterations, attempt, samples, records, status, score>>

Take ==
  /\ status = "measuring" /\ todo # <<>> /\ calibrated /\ Len(samples) < Repeats
  /\ \E t \in Times :
       IF t < MinTime THEN Again \/ (attempt = Attempts /\ Fails)
       ELSE /\ samples' = Append(samples, [elapsed |-> t, operations |-> Operations])
            /\ UNCHANGED <<claim, speed, todo, iterations, attempt, calibrated, records, status, score>>

NextStage ==
  /\ status = "measuring" /\ todo # <<>> /\ calibrated /\ Len(samples) = Repeats
  /\ records' = Append(records, [workload |-> Stage.kind, threads |-> Stage.threads,
                                 iterations |-> iterations, samples |-> samples])
  /\ todo' = Tail(todo) /\ iterations' = First /\ attempt' = 1 /\ calibrated' = FALSE /\ samples' = <<>>
  /\ UNCHANGED <<claim, speed, status, score>>

-----------------------------------------------------------------------------
(* The reader. *)

PlacementAccepted ==
  IF claim.pinned
  THEN /\ claim.os = IF claim.policy = "linux-pinned" THEN "Linux" ELSE "Windows"
       /\ claim.cpus # {} /\ claim.threads <= Cardinality(claim.cpus)
       /\ claim.available = Cardinality(claim.cpus)
       /\ claim.os = "Windows" => Cardinality({c \div 64 : c \in claim.cpus}) = 1
  ELSE /\ claim.policy = "macos-qos-user-initiated" /\ claim.os = "Darwin" /\ claim.cpus = {}
       /\ claim.threads <= claim.available

TimerAccepted ==
  claim.timer = IF claim.policy = "windows-pinned-process-group"
                THEN "QueryPerformanceCounter" ELSE "CLOCK_MONOTONIC"

\* The reader's own gradient, and what it demands of one record.
Gradient == [e \in 1..Cardinality({k \in 0..18 : Power[k] < claim.threads}) |-> Power[e - 1]]
              \o <<claim.threads>>
RecordAccepted(r) ==
  /\ r.workload \in Kinds /\ r.threads \in ToSet(Gradient) /\ r.iterations > 0
  /\ Len(r.samples) = Repeats
  /\ \A i \in DOMAIN r.samples :
       /\ r.samples[i].elapsed >= MinTime
       /\ r.samples[i].operations = r.iterations * r.threads * OpsOf(r.workload)
       /\ r.samples[i].operations \in 1..Word

\* Every stage of the gradient exactly once.
Accepted ==
  LET keys == {<<r.workload, r.threads>> : r \in ToSet(records)}
  IN  /\ PlacementAccepted /\ TimerAccepted
      /\ Schedule(claim.threads) = Gradient
      /\ \A r \in ToSet(records) : RecordAccepted(r)
      /\ Cardinality(keys) = Len(records) /\ keys = Kinds \X ToSet(Gradient)

\* Two files are written; a failed write is a failed run.
Write ==
  /\ status = "measuring" /\ todo = <<>>
  /\ \/ status' = "no score" /\ UNCHANGED score
     \/ status' = "written" /\ score' = IF Accepted THEN "accepted" ELSE "rejected"
  /\ UNCHANGED <<claim, speed, todo, iterations, attempt, calibrated, samples, records>>

Next == Refused \/ Calibrate \/ Take \/ NextStage \/ Write
Spec == Init /\ [][Next]_vars

-----------------------------------------------------------------------------
(* Whatever number of threads, speed and jitter, a file the engine writes is *)
(* one the strict reader scores: no product of the calibration overflowed,   *)
(* no sample is short, and every stage of the gradient is there once         *)
(* (test_cpu_multi.c benchmark, cm_thread_schedule, compute_mark_score).     *)
MarkAccepted == status = "written" => score = "accepted"
=============================================================================
