---------------------------- MODULE ComputeGate ----------------------------
(***************************************************************************)
(* One timed sample of ComputeMark: measure() and worker_main() of         *)
(* src/test_cpu_multi.c.  The main thread creates the workers, waits until *)
(* each has bound itself and warmed up, takes the start time, opens the    *)
(* gate, waits until all are done and joins them; the last worker done     *)
(* takes the end time.  Everything they share is guarded by one mutex and  *)
(* one condition variable, and lives on the stack of measure().            *)
(*                                                                         *)
(* A critical section is one step: the mutex is held from its lock to its  *)
(* unlock, or to a pthread_cond_wait, which puts the thread in `asleep`    *)
(* and releases the mutex at once.  A broadcast wakes every sleeper; so    *)
(* may, spuriously, anything.                                              *)
(***************************************************************************)
EXTENDS Naturals, FiniteSets

CONSTANTS
  N,         \* threads of this level
  MaxClock   \* bound: how far the monotonic clock may advance

ASSUME NAssumption == N \in Nat \ {0}
ASSUME ClockAssumption == MaxClock \in Nat

Workers == 1..N
Main == 0

VARIABLES
  pc,       \* main: create, gather, await, join, then returned
  wpc,      \* per worker: none, warm, parked, work, finish, leaving, exited
  asleep,   \* threads blocked in pthread_cond_wait
  ready, done, go, abort, failed, end,   \* the Gate
  created, joined, error, start,         \* locals of measure(); joined: tids[] waited for
  clock,    \* now_ns(), which may stand still between two reads
  began, ended   \* history: when each worker's counted work began and ended

gate == <<ready, done, go, abort, failed, end>>
vars == <<pc, wpc, asleep, gate, created, joined, error, start, clock, began, ended>>

Init ==
  /\ pc = "create" /\ wpc = [w \in Workers |-> "none"]
  /\ asleep = {}
  /\ ready = 0 /\ done = 0 /\ go = FALSE /\ abort = FALSE /\ failed = FALSE /\ end = 0
  /\ created = 0 /\ joined = 0 /\ error = FALSE /\ start = 0
  /\ clock = 0
  /\ began = [w \in Workers |-> 0] /\ ended = [w \in Workers |-> 0]

Tick ==
  /\ clock < MaxClock
  /\ clock' = clock + 1
  /\ UNCHANGED <<pc, wpc, asleep, gate, created, joined, error, start, began, ended>>

\* A condition variable may return without a broadcast.
SpuriousWake ==
  /\ \E t \in asleep : asleep' = asleep \ {t}
  /\ UNCHANGED <<pc, wpc, gate, created, joined, error, start, clock, began, ended>>

-----------------------------------------------------------------------------
(* The main thread.                                                        *)

\* Mutant: the loop runs once too often.
CreateOneMore ==
  /\ pc = "create" /\ created <= N /\ ~error
  /\ \/ /\ wpc' = [wpc EXCEPT ![created + 1] = "warm"]
        /\ created' = created + 1
        /\ UNCHANGED error
     \/ error' = TRUE /\ UNCHANGED <<wpc, created>>
  /\ UNCHANGED <<pc, asleep, gate, joined, start, clock, began, ended>>

Create ==
  /\ pc = "create" /\ created < N /\ ~error
  /\ \/ /\ wpc' = [wpc EXCEPT ![created + 1] = "warm"]
        /\ created' = created + 1
        /\ UNCHANGED error
     \/ error' = TRUE /\ UNCHANGED <<wpc, created>>
  /\ UNCHANGED <<pc, asleep, gate, joined, start, clock, began, ended>>

Created ==
  /\ pc = "create" /\ (created = N \/ error)
  /\ pc' = "gather"
  /\ UNCHANGED <<wpc, asleep, gate, created, joined, error, start, clock, began, ended>>

\* while (ready < created) wait
GatherWait ==
  /\ pc = "gather" /\ Main \notin asleep
  /\ ready < created
  /\ asleep' = asleep \cup {Main}
  /\ UNCHANGED <<pc, wpc, gate, created, joined, error, start, clock, began, ended>>

\* A thread missing or unfit: nobody is measured.
Abort ==
  /\ pc = "gather" /\ Main \notin asleep
  /\ ready >= created /\ (error \/ failed)
  /\ abort' = TRUE /\ asleep' = {} /\ pc' = "join"
  /\ UNCHANGED <<wpc, ready, done, go, failed, end, created, joined, error, start, clock, began, ended>>

\* Mutant: one wait instead of a loop around it.
OpenOnAnyWake ==
  /\ pc = "gather" /\ Main \notin asleep
  /\ ready > 0 /\ ~error /\ ~failed
  /\ start' = clock /\ go' = TRUE
  /\ asleep' = {Main} /\ pc' = "await"
  /\ UNCHANGED <<wpc, ready, done, abort, failed, end, created, joined, error, clock, began, ended>>

\* The start time, the gate, the broadcast, and the first wait for the workers.
Open ==
  /\ pc = "gather" /\ Main \notin asleep
  /\ ready >= created /\ ~error /\ ~failed
  /\ start' = clock /\ go' = TRUE
  /\ IF done < N THEN asleep' = {Main} /\ pc' = "await"
                 ELSE asleep' = {} /\ pc' = "join"
  /\ UNCHANGED <<wpc, ready, done, abort, failed, end, created, joined, error, clock, began, ended>>

Await ==
  /\ pc = "await" /\ Main \notin asleep
  /\ IF done < N THEN asleep' = asleep \cup {Main} /\ UNCHANGED pc
                 ELSE pc' = "join" /\ UNCHANGED asleep
  /\ UNCHANGED <<wpc, gate, created, joined, error, start, clock, began, ended>>

\* pthread_join on tids[0..created-1], in turn.
Join ==
  /\ pc = "join" /\ joined < created
  /\ wpc[joined + 1] = "exited"
  /\ joined' = joined + 1
  /\ UNCHANGED <<pc, wpc, asleep, gate, created, error, start, clock, began, ended>>

\* Mutant: the loop over tids is left on the first failure.
ReturnOnError ==
  /\ pc = "join" /\ (joined = created \/ error \/ failed)
  /\ error' = (error \/ failed \/ abort \/ end <= start)
  /\ pc' = "returned"
  /\ UNCHANGED <<wpc, asleep, gate, created, joined, start, clock, began, ended>>

\* The verdict; then the mutex, the condition and the gate are gone.
Return ==
  /\ pc = "join" /\ joined = created
  /\ error' = (error \/ failed \/ abort \/ end <= start)
  /\ pc' = "returned"
  /\ UNCHANGED <<wpc, asleep, gate, created, joined, start, clock, began, ended>>

-----------------------------------------------------------------------------
(* A worker.                                                               *)

\* Bound and self-tested, or not; warmed up either way.
Ready(w) ==
  /\ wpc[w] = "warm"
  /\ \E unfit \in BOOLEAN : failed' = (failed \/ unfit)
  /\ ready' = ready + 1
  /\ wpc' = [wpc EXCEPT ![w] = "parked"]
  /\ asleep' = IF go \/ abort THEN {} ELSE {w}
  /\ UNCHANGED <<pc, done, go, abort, end, created, joined, error, start, clock, began, ended>>

\* while (!go && !abort) wait
Wake(w) ==
  /\ wpc[w] = "parked" /\ w \notin asleep
  /\ IF go \/ abort
     THEN /\ wpc' = [wpc EXCEPT ![w] = IF abort THEN "leaving" ELSE "work"]
          /\ began' = [began EXCEPT ![w] = clock]
          /\ UNCHANGED asleep
     ELSE asleep' = asleep \cup {w} /\ UNCHANGED <<wpc, began>>
  /\ UNCHANGED <<pc, gate, created, joined, error, start, clock, ended>>

\* The counted work, outside the mutex.
Work(w) ==
  /\ wpc[w] = "work"
  /\ ended' = [ended EXCEPT ![w] = clock]
  /\ wpc' = [wpc EXCEPT ![w] = "finish"]
  /\ UNCHANGED <<pc, asleep, gate, created, joined, error, start, clock, began>>

\* Mutants: the first worker done takes the end time; the last wakes nobody.
FinishFirst(w) ==
  /\ wpc[w] = "finish"
  /\ \E wrong \in BOOLEAN : failed' = (failed \/ wrong)
  /\ done' = done + 1
  /\ end' = IF done = 0 THEN clock ELSE end
  /\ asleep' = {}
  /\ wpc' = [wpc EXCEPT ![w] = "leaving"]
  /\ UNCHANGED <<pc, ready, go, abort, created, joined, error, start, clock, began, ended>>
FinishSilently(w) ==
  /\ wpc[w] = "finish"
  /\ \E wrong \in BOOLEAN : failed' = (failed \/ wrong)
  /\ done' = done + 1
  /\ end' = IF done + 1 = N THEN clock ELSE end
  /\ wpc' = [wpc EXCEPT ![w] = "leaving"]
  /\ UNCHANGED <<pc, asleep, ready, go, abort, created, joined, error, start, clock, began, ended>>

\* A wrong result fails the sample; the last worker takes the end time.
Finish(w) ==
  /\ wpc[w] = "finish"
  /\ \E wrong \in BOOLEAN : failed' = (failed \/ wrong)
  /\ done' = done + 1
  /\ end' = IF done + 1 = N THEN clock ELSE end
  /\ asleep' = {}
  /\ wpc' = [wpc EXCEPT ![w] = "leaving"]
  /\ UNCHANGED <<pc, ready, go, abort, created, joined, error, start, clock, began, ended>>

\* Still inside pthread_mutex_unlock of the gate, on the way out of worker_main.
Exit(w) ==
  /\ wpc[w] = "leaving"
  /\ wpc' = [wpc EXCEPT ![w] = "exited"]
  /\ UNCHANGED <<pc, asleep, gate, created, joined, error, start, clock, began, ended>>

Worker(w) == Ready(w) \/ Wake(w) \/ Work(w) \/ Finish(w) \/ Exit(w)

MainThread == Create \/ Created \/ GatherWait \/ Abort \/ Open \/ Await \/ Join \/ Return

Returned == pc = "returned" /\ UNCHANGED vars

Next == MainThread \/ (\E w \in Workers : Worker(w)) \/ Tick \/ SpuriousWake \/ Returned

Spec == Init /\ [][Next]_vars

\* Every thread that can run does: the kernel schedules them all.
FairSpec == Spec /\ WF_vars(MainThread) /\ \A w \in Workers : WF_vars(Worker(w))

-----------------------------------------------------------------------------
(* Properties.                                                             *)

TypeOK ==
  /\ pc \in {"create", "gather", "await", "join", "returned"}
  /\ wpc \in [Workers -> {"none", "warm", "parked", "work", "finish", "leaving", "exited"}]
  /\ asleep \in SUBSET (Workers \cup {Main})
  /\ ready \in Nat /\ done \in Nat /\ end \in Nat
  /\ go \in BOOLEAN /\ abort \in BOOLEAN /\ failed \in BOOLEAN
  /\ created \in 0..N /\ joined \in 0..N /\ error \in BOOLEAN /\ start \in Nat
  /\ clock \in Nat
  /\ began \in [Workers -> Nat] /\ ended \in [Workers -> Nat]

\* Counted work only runs when all N threads exist, passed their self-test and
\* stand at the gate: an N-thread rate is never measured with fewer.
WorkNeedsAll ==
  (\E w \in Workers : wpc[w] \in {"work", "finish"}) =>
    /\ go /\ ~abort /\ ~error
    /\ \A w \in Workers : wpc[w] \in {"parked", "work", "finish", "leaving", "exited"}

\* An accepted sample: every thread's work lies between its two time stamps.
SampleCoversWork ==
  pc = "returned" /\ ~error =>
    \A w \in Workers : start <= began[w] /\ ended[w] <= end

\* The gate is on the stack of measure(): when it returns no thread that could
\* still touch it is alive, whatever failed and however many were created.  The
\* loop over tids only knows the count, so this rests on that count being right.
NoThreadOutlivesGate ==
  pc = "returned" => \A w \in Workers : wpc[w] \in {"none", "exited"}

\* No lost wake-up: measure() always returns.
Returns == <>(pc = "returned")
=============================================================================
