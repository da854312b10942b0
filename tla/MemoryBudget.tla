---------------------------- MODULE MemoryBudget ----------------------------
(***************************************************************************)
(* The memory of a stress session: what the page may ask for               *)
(* (run_stress.py capabilities, desktop_stress.py), the check of every     *)
(* change of modes against what is left at that moment (stress_common.py,  *)
(* run_stress.py change), and the threads that take and give their blocks  *)
(* one by one later (stress_cpu.c) while other programs take theirs.       *)
(***************************************************************************)
EXTENDS Integers, FiniteSets, FiniteSetsExt

CONSTANTS
  Threads,    \* allowed_threads
  Mib,        \* units of memory in a MiB; a unit is the 8 bytes blocks are rounded to
  CacheCost,  \* units of one thread's cache block
  GpuCost,    \* units of the GPU load
  Selections, \* sets of modes a user may select
  Levels      \* memory there may be without the session

\* Of the constants.
BudgetAssumption ==
  /\ Threads \in Nat \ {0} /\ Mib \in Nat \ {0} /\ CacheCost \in Nat /\ GpuCost \in Nat
  /\ Levels \subseteq Nat

VARIABLES
  free,       \* left for the session in the system and in its control group
  offered,    \* what the last probe told the page
  phase,      \* "idle", "starting", "running"
  threads, memory, \* of the session, memory in MiB
  modes,      \* applied_modes
  supported,  \* caps["modes"]["ram"] of the session
  asked,      \* modes of the first change
  held,       \* threads that hold RAM or cache blocks, and the GPU
  decision    \* of the step just taken, and the modes it was about

vars == <<free, offered, phase, threads, memory, modes, supported, asked, held, decision>>

NoDecision == [told |-> "none", selected |-> {}]
Nothing == [ram |-> 0, cache |-> 0, gpu |-> 0]
RamPerThread == (memory * Mib) \div threads
Usage == held.ram * RamPerThread + held.cache * CacheCost + held.gpu * GpuCost

Init ==
  /\ free \in [{"system", "group"} -> Levels] /\ offered = [default |-> 1, maximum |-> 1]
  /\ phase = "idle" /\ threads = 1 /\ memory = 1 /\ modes = {} /\ asked = {} /\ supported = TRUE
  /\ held = Nothing /\ decision = NoDecision

\* available_memory: the tightest of the limits.
Left == Min({free["system"], free["group"]})
Available == Left - Usage

Overhead(n, gpu) == n * CacheCost + (IF gpu THEN GpuCost ELSE 0)
\* memory_limits
Maximum(available, n, gpu) == Max({0, (available \div 2 - Overhead(n, gpu)) \div Mib})
Default(available, n, gpu) == Min({Maximum(available, n, gpu), (available \div 4) \div Mib})

\* Other programs, as far as there is memory.
Others ==
  /\ free' \in [{"system", "group"} -> Levels] /\ Usage <= Min({free'["system"], free'["group"]})
  /\ decision' = NoDecision /\ UNCHANGED <<offered, phase, threads, memory, modes, supported, asked, held>>

\* run_stress.py --probe; the spin box holds at least 1.
Probe ==
  /\ phase = "idle"
  /\ offered' = [default |-> Max({1, Default(Available, Threads, TRUE)}),
                 maximum |-> Max({1, Maximum(Available, Threads, TRUE)})]
  /\ decision' = NoDecision /\ UNCHANGED <<free, phase, threads, memory, modes, supported, asked, held>>

\* run_session with capabilities of its own: RAM for which nothing is left is no mode.
Start ==
  /\ phase = "idle" /\ threads' \in 1..Threads /\ memory' \in {1, offered.default, offered.maximum}
  /\ supported' = (Maximum(Available, Threads, TRUE) > 0)
  /\ asked' \in {s \in Selections : "ram" \in s => supported'}
  /\ phase' = "starting" /\ decision' = NoDecision
  /\ UNCHANGED <<free, offered, modes, held>>

\* Mutant: what the session holds already counts against it.
OwnedNone == 0
Owned == IF "ram" \in modes THEN memory * Mib ELSE 0

Refuse(told, selected) ==
  phase' = "idle" /\ modes' = {} /\ held' = Nothing /\ decision' = [told |-> told, selected |-> selected]

\* change; a refusal ends the session and its children.
Change(selected) ==
  LET maximum == Maximum(Available + Owned, threads, "gpu" \in selected)
  IN \/ "ram" \in selected /\ ~supported /\ Refuse("unsupported", selected)
     \/ "ram" \in selected /\ supported /\ memory > maximum /\ Refuse("memory_error", selected)
     \/ /\ "ram" \in selected => supported /\ memory <= maximum
        /\ phase' = "running" /\ modes' = selected
        /\ decision' = [told |-> "accepted", selected |-> selected]
        /\ held' = [held EXCEPT !.gpu = IF "gpu" \in selected THEN @ ELSE 0]

FirstChange ==
  /\ phase = "starting" /\ Change(asked) /\ asked' = {}
  /\ UNCHANGED <<free, offered, threads, memory, supported>>

HotSwitch ==
  /\ phase = "running" /\ \E selected \in Selections \ {modes} : Change(selected)
  /\ UNCHANGED <<free, offered, threads, memory, supported, asked>>

Stop ==
  /\ phase = "running" /\ phase' = "idle" /\ modes' = {} /\ held' = Nothing
  /\ decision' = NoDecision /\ UNCHANGED <<free, offered, threads, memory, supported, asked>>

\* worker: malloc when the mode is on, free when it is off; the GPU process likewise.
Allocate(kind, size) ==
  /\ phase = "running" /\ kind \in modes /\ held[kind] < (IF kind = "gpu" THEN 1 ELSE threads)
  /\ size <= Available /\ held' = [held EXCEPT ![kind] = @ + 1]
Release(kind) ==
  /\ phase = "running" /\ kind \notin modes /\ held[kind] > 0 /\ held' = [held EXCEPT ![kind] = @ - 1]

Worker ==
  /\ \/ Allocate("ram", RamPerThread) \/ Allocate("cache", CacheCost) \/ Allocate("gpu", GpuCost)
     \/ Release("ram") \/ Release("cache")
  /\ decision' = NoDecision /\ UNCHANGED <<free, offered, phase, threads, memory, modes, supported, asked>>

Next == Others \/ Probe \/ Start \/ FirstChange \/ HotSwitch \/ Stop \/ Worker
Spec == Init /\ [][Next]_vars

-----------------------------------------------------------------------------
\* The threads have taken, or given back, the RAM the modes ask for.
Settled == held.ram = IF "ram" \in modes THEN threads ELSE 0
\* What the blocks do not hold of it: each is rounded down.
Rounding == memory * Mib - threads * RamPerThread
Fits(selected, left) == memory * Mib + Overhead(threads, "gpu" \in selected) <= left \div 2

KeepsToHalf ==
  Settled =>
    /\ decision'.told = "accepted" /\ "ram" \in modes' => Fits(modes', Left + Rounding)
    /\ decision'.told = "memory_error" /\ held.cache = 0 /\ held.gpu = 0
         => ~Fits(decision'.selected, Left)

(* "RAM plus cache and GPU allocations must all fit half of available      *)
(* memory" and "a hot switch must not count our already allocated RAM      *)
(* against itself" (stress_common.py memory_limits, run_stress.py change): *)
(* a switch made when the RAM is as the modes say lets through only what   *)
(* fits half of what there is without the session, and turns away only     *)
(* what does not, as long as no cache or GPU block is held. The code gives *)
(* the session back all the RAM it asked for while the blocks hold it less *)
(* what each is rounded down by, so "half" is of the memory and that rest. *)
BudgetIsHalf == [][KeepsToHalf]_vars
=============================================================================
