------------------------- MODULE ComputeGateProofs -------------------------
(***************************************************************************)
(* The safety of one ComputeMark sample for every number of threads.  The  *)
(* counters of the gate are tied to the sets of threads they count; the    *)
(* rest of the invariant follows main and the workers through the phases   *)
(* of the gate.                                                            *)
(***************************************************************************)
EXTENDS ComputeGate, FiniteSetTheorems, TLAPS

\* Workers that have counted themselves ready, and those that have left.
ReadySet == {w \in Workers : wpc[w] \in {"parked", "work", "finish", "leaving", "exited"}}
DoneSet  == {w \in Workers : wpc[w] \in {"leaving", "exited"}}

\* The counters count, and only created workers run.
Counting ==
  /\ \A w \in Workers : wpc[w] = "none" <=> w > created
  /\ ready = Cardinality(ReadySet)
  /\ IF go THEN done = Cardinality(DoneSet) ELSE done = 0

\* What each phase of main says about the gate.
Phases ==
  /\ ~(go /\ abort)
  /\ pc \in {"create", "gather"} => ~go /\ ~abort
  /\ pc = "gather" => created = N \/ error
  /\ pc = "await" => go
  /\ pc \in {"join", "returned"} => go \/ abort
  /\ pc = "returned" => joined = created
  /\ pc = "returned" /\ ~error => ~abort

\* What the loop over tids has waited for, and that no thread of it is left out.
Joins ==
  /\ \A w \in Workers : w <= joined => wpc[w] = "exited"
  /\ pc \in {"create", "gather"} => joined = 0

\* What an open or closed gate says about the workers.
GateState ==
  /\ go => /\ created = N /\ ReadySet = Workers
           /\ pc # "returned" => ~error
           /\ start <= clock
  /\ ~go => \A w \in Workers : wpc[w] \notin {"work", "finish"}
  /\ ~go /\ ~abort => \A w \in Workers : wpc[w] \notin {"leaving", "exited"}

\* Time stamps of the counted work.
Times ==
  /\ go => \A w \in Workers :
       /\ wpc[w] \in {"work", "finish", "leaving", "exited"} => start <= began[w]
       /\ wpc[w] \in {"finish", "leaving", "exited"} => ended[w] <= clock
  /\ go /\ done = N => \A w \in Workers : ended[w] <= end

IInv == TypeOK /\ Counting /\ Phases /\ Joins /\ GateState /\ Times

-----------------------------------------------------------------------------
\* Both sets of workers are finite and no larger than the level.
LEMMA SetsFinite ==
  ASSUME NEW S, S \subseteq Workers
  PROVE  /\ IsFiniteSet(S) /\ Cardinality(S) \in Nat /\ Cardinality(S) <= N
         /\ Cardinality(S) = N => S = Workers
<1>1. IsFiniteSet(Workers) /\ Cardinality(Workers) = N
  BY NAssumption, FS_Interval DEF Workers
<1>2. IsFiniteSet(S) /\ Cardinality(S) <= N /\ (Cardinality(S) = N => S = Workers)
  BY <1>1, FS_Subset
<1>. QED
  BY <1>2, FS_CardinalityType

\* A worker that moves into a set makes its cardinality one larger.
LEMMA OneMore ==
  ASSUME NEW S, S \subseteq Workers, NEW w \in Workers, w \notin S
  PROVE  Cardinality(S \cup {w}) = Cardinality(S) + 1
BY SetsFinite, FS_AddElement

\* measure() starts with a closed gate and no threads: the invariant holds.
LEMMA InitIInv == Init => IInv
<1> SUFFICES ASSUME Init PROVE IInv
  OBVIOUS
<1>. USE NAssumption DEF Init
<1>1. TypeOK
  <2>1. created \in 0..N /\ 0 \in Nat
    OBVIOUS
  <2>2. /\ began \in [Workers -> Nat] /\ ended \in [Workers -> Nat]
        /\ wpc \in [Workers -> {"none", "warm", "parked", "work", "finish", "leaving", "exited"}]
    BY <2>1
  <2>. QED
    BY <2>1, <2>2, Zenon DEF TypeOK
<1>2. ReadySet = {}
  BY DEF ReadySet
<1>3. Counting
  BY <1>2, FS_EmptySet DEF Counting, Workers
<1>4. Phases /\ Joins /\ GateState /\ Times
  BY DEF Phases, Joins, GateState, Times, Workers
<1>. QED
  BY <1>1, <1>3, <1>4 DEF IInv

\* Every step keeps the types.
LEMMA StepType == TypeOK /\ [Next]_vars => TypeOK'
<1> SUFFICES ASSUME TypeOK, [Next]_vars PROVE TypeOK'
  OBVIOUS
<1>. USE NAssumption DEF TypeOK, gate
<1>1. CASE MainThread
  <2>1. CASE Create
    <3>1. created < N => created + 1 \in Workers /\ created + 1 \in 0..N
      BY DEF Workers
    <3>2. wpc' \in [Workers -> {"none", "warm", "parked", "work", "finish", "leaving", "exited"}]
      BY <2>1, <3>1 DEF Create
    <3>. QED
      BY <2>1, <3>1, <3>2 DEF Create
  <2>2. CASE Created \/ GatherWait \/ Abort
    BY <2>2 DEF Created, GatherWait, Abort
  <2>3. CASE Open \/ Await \/ Return
    BY <2>3 DEF Open, Await, Return
  <2>4. CASE Join
    BY <2>4 DEF Join
  <2>. QED
    BY <1>1, <2>1, <2>2, <2>3, <2>4 DEF MainThread
<1>2. ASSUME NEW w \in Workers, Worker(w) PROVE TypeOK'
  <2>1. CASE Ready(w)
    BY <2>1 DEF Ready
  <2>2. CASE Wake(w)
    BY <2>2 DEF Wake
  <2>3. CASE Work(w)
    BY <2>3 DEF Work
  <2>4. CASE Finish(w) \/ Exit(w)
    BY <2>4 DEF Finish, Exit
  <2>. QED
    BY <1>2, <2>1, <2>2, <2>3, <2>4 DEF Worker
<1>3. CASE Tick \/ SpuriousWake
  BY <1>3 DEF Tick, SpuriousWake
<1>4. CASE Returned \/ UNCHANGED vars
  BY <1>4 DEF Returned, vars
<1>. QED
  BY <1>1, <1>2, <1>3, <1>4 DEF Next

\* The sample is typed for every number of threads.
THEOREM TypeCorrect == Spec => []TypeOK
<1>1. Init => TypeOK
  BY InitIInv DEF IInv
<1>. QED
  BY <1>1, StepType, PTL DEF Spec

-----------------------------------------------------------------------------
\* Main's counters: creating a thread, waiting and the verdict move no worker
\* between the counted sets.
LEMMA MainCounting ==
  ASSUME IInv, MainThread
  PROVE  Counting' /\ ReadySet' = ReadySet /\ DoneSet' = DoneSet
<1>. USE NAssumption DEF IInv, TypeOK, gate
<1>1. ASSUME wpc' = wpc PROVE ReadySet' = ReadySet /\ DoneSet' = DoneSet
  BY <1>1 DEF ReadySet, DoneSet
<1>2. CASE Create
  <2>1. CASE error' = TRUE /\ UNCHANGED <<wpc, created>>
    BY <1>1, <1>2, <2>1 DEF Create, Counting
  <2>2. CASE /\ wpc' = [wpc EXCEPT ![created + 1] = "warm"]
             /\ created' = created + 1 /\ error' = error
    <3>1. created + 1 \in Workers /\ wpc[created + 1] = "none"
      BY <1>2 DEF Create, Counting, Workers
    <3>2. ReadySet' = ReadySet /\ DoneSet' = DoneSet
      BY <2>2, <3>1 DEF ReadySet, DoneSet
    <3>3. \A w \in Workers : wpc'[w] = "none" <=> w > created'
      BY <2>2, <3>1 DEF Counting, Workers
    <3>. QED
      BY <1>2, <3>2, <3>3 DEF Create, Counting
  <2>. QED
    BY <1>2, <2>1, <2>2 DEF Create
<1>3. CASE Created \/ GatherWait \/ Abort \/ Await \/ Join \/ Return
  <2>1. UNCHANGED <<wpc, created, ready, done, go>>
    BY <1>3 DEF Created, GatherWait, Abort, Await, Join, Return
  <2>. QED
    BY <2>1, <1>1 DEF Counting
<1>4. CASE Open
  <2>1. ~go /\ ~abort /\ UNCHANGED <<wpc, created, ready, done>> /\ go'
    BY <1>4 DEF Open, Phases
  <2>2. DoneSet = {}
    BY <2>1 DEF GateState, DoneSet
  <2>3. done = Cardinality(DoneSet)
    BY <2>1, <2>2, FS_EmptySet DEF Counting
  <2>. QED
    BY <2>1, <2>3, <1>1 DEF Counting
<1>. QED
  BY <1>2, <1>3, <1>4 DEF MainThread

\* A worker that counts itself ready or done enters the set it is counted in.
LEMMA WorkerCounting ==
  ASSUME IInv, NEW w \in Workers, Worker(w)
  PROVE  /\ Counting'
         /\ ReadySet' = IF Ready(w) THEN ReadySet \cup {w} ELSE ReadySet
<1>. USE NAssumption DEF IInv, TypeOK, gate
<1>1. CASE Ready(w)
  <2>1. w \notin ReadySet /\ ReadySet \subseteq Workers
    BY <1>1 DEF Ready, ReadySet
  <2>2. ReadySet' = ReadySet \cup {w} /\ DoneSet' = DoneSet
    BY <1>1 DEF Ready, ReadySet, DoneSet
  <2>3. Cardinality(ReadySet') = Cardinality(ReadySet) + 1
    BY <2>1, <2>2, OneMore
  <2>4. \A v \in Workers : wpc'[v] = "none" <=> v > created'
    BY <1>1 DEF Ready, Counting
  <2>. QED
    BY <1>1, <2>2, <2>3, <2>4 DEF Ready, Counting
<1>2. CASE Wake(w) \/ Work(w) \/ Exit(w)
  <2>1. ~Ready(w) /\ UNCHANGED <<ready, done, go, abort, created>>
    BY <1>2 DEF Wake, Work, Exit, Ready
  <2>2. ReadySet' = ReadySet
    BY <1>2 DEF Wake, Work, Exit, ReadySet
  <2>3. go => DoneSet' = DoneSet
    BY <1>2 DEF Wake, Work, Exit, DoneSet, Phases
  <2>4. \A v \in Workers : wpc'[v] = "none" <=> v > created'
    BY <1>2 DEF Wake, Work, Exit, Counting
  <2>. QED
    BY <2>1, <2>2, <2>3, <2>4 DEF Counting
<1>3. CASE Finish(w)
  <2>1. ~Ready(w) /\ go /\ UNCHANGED <<ready, go, created>> /\ done' = done + 1
    BY <1>3 DEF Finish, Ready, GateState
  <2>2. ReadySet' = ReadySet
    BY <1>3 DEF Finish, ReadySet
  <2>3. w \notin DoneSet /\ DoneSet \subseteq Workers /\ DoneSet' = DoneSet \cup {w}
    BY <1>3 DEF Finish, DoneSet
  <2>4. Cardinality(DoneSet') = Cardinality(DoneSet) + 1
    BY <2>3, OneMore
  <2>5. \A v \in Workers : wpc'[v] = "none" <=> v > created'
    BY <1>3 DEF Finish, Counting
  <2>. QED
    BY <2>1, <2>2, <2>4, <2>5 DEF Counting
<1>. QED
  BY <1>1, <1>2, <1>3 DEF Worker

\* Opening the gate needs every thread of the level ready.
LEMMA OpenNeedsAll ==
  ASSUME IInv, Open
  PROVE  created = N /\ ReadySet = Workers
<1>1. created = N /\ ready >= N /\ ready = Cardinality(ReadySet)
  BY DEF IInv, Open, Phases, Counting
<1>2. ReadySet \subseteq Workers
  BY DEF ReadySet
<1>3. Cardinality(ReadySet) = N
  BY <1>1, <1>2, SetsFinite, NAssumption
<1>. QED
  BY <1>1, <1>2, <1>3, SetsFinite

\* Every step keeps main's place and the gate in agreement.
LEMMA StepPhases == IInv /\ [Next]_vars => Phases'
<1> SUFFICES ASSUME IInv, [Next]_vars PROVE Phases'
  OBVIOUS
<1>. USE NAssumption DEF IInv, TypeOK, Phases, gate
<1>1. CASE MainThread
  <2>1. CASE Create \/ Created
    BY <1>1, <2>1 DEF Create, Created
  <2>2. CASE GatherWait \/ Await
    BY <2>2 DEF GatherWait, Await
  <2>3. CASE Abort \/ Open
    BY <2>3 DEF Abort, Open
  <2>4. CASE Join \/ Return
    BY <2>4 DEF Join, Return
  <2>. QED
    BY <1>1, <2>1, <2>2, <2>3, <2>4 DEF MainThread
<1>2. ASSUME NEW w \in Workers, Worker(w) PROVE Phases'
  <2>1. UNCHANGED <<pc, go, abort, created, joined, error>>
    BY <1>2 DEF Worker, Ready, Wake, Work, Finish, Exit
  <2>. QED
    BY <2>1
<1>3. CASE Tick \/ SpuriousWake \/ Returned \/ UNCHANGED vars
  BY <1>3 DEF Tick, SpuriousWake, Returned, vars
<1>. QED
  BY <1>1, <1>2, <1>3 DEF Next

\* Every step keeps the loop over tids behind the threads that have ended: a
\* thread that has ended never runs again.
LEMMA StepJoins == IInv /\ [Next]_vars => Joins'
<1> SUFFICES ASSUME IInv, [Next]_vars PROVE Joins'
  OBVIOUS
<1>. USE NAssumption DEF IInv, TypeOK, Joins, gate
<1>1. CASE MainThread
  <2>1. CASE Create
    BY <2>1 DEF Create, Workers
  <2>2. CASE Created \/ GatherWait \/ Await
    BY <2>2 DEF Created, GatherWait, Await
  <2>3. CASE Abort \/ Open \/ Return
    BY <2>3 DEF Abort, Open, Return
  <2>4. CASE Join
    BY <2>4 DEF Join, Workers
  <2>. QED
    BY <1>1, <2>1, <2>2, <2>3, <2>4 DEF MainThread
<1>2. ASSUME NEW w \in Workers, Worker(w) PROVE Joins'
  <2>1. UNCHANGED <<pc, joined>> /\ wpc[w] # "exited"
    BY <1>2 DEF Worker, Ready, Wake, Work, Finish, Exit
  <2>2. \A v \in Workers : v # w => wpc'[v] = wpc[v]
    BY <1>2 DEF Worker, Ready, Wake, Work, Finish, Exit
  <2>. QED
    BY <2>1, <2>2
<1>3. CASE Tick \/ SpuriousWake \/ Returned \/ UNCHANGED vars
  BY <1>3 DEF Tick, SpuriousWake, Returned, vars
<1>. QED
  BY <1>1, <1>2, <1>3 DEF Next

\* Every step keeps the gate and the workers in agreement.
LEMMA StepGateState == IInv /\ [Next]_vars => GateState'
<1> SUFFICES ASSUME IInv, [Next]_vars PROVE GateState'
  OBVIOUS
<1>. USE NAssumption DEF IInv, TypeOK, gate
<1>1. CASE Create
  <2>1. ~go /\ ~abort /\ UNCHANGED <<go, abort>>
    BY <1>1 DEF Create, Phases
  <2>2. \A w \in Workers : wpc'[w] \in {wpc[w], "warm"}
    BY <1>1 DEF Create
  <2>. QED
    BY <2>1, <2>2 DEF GateState
<1>2. CASE Created \/ GatherWait \/ Await
  <2>1. UNCHANGED <<wpc, go, abort, created, error, start, clock>> /\ pc' # "returned"
    BY <1>2 DEF Created, GatherWait, Await
  <2>2. ReadySet' = ReadySet
    BY <2>1 DEF ReadySet
  <2>3. go => pc # "returned"
    BY <1>2 DEF Created, GatherWait, Await
  <2>. QED
    BY <2>1, <2>2, <2>3 DEF GateState
<1>3. CASE Abort
  BY <1>3 DEF Abort, Phases, GateState
<1>4. CASE Open
  <2>1. created = N /\ ReadySet = Workers
    BY <1>4, OpenNeedsAll
  <2>2. ReadySet' = ReadySet /\ UNCHANGED <<created, error, clock, abort>>
    BY <1>4 DEF Open, ReadySet
  <2>. QED
    BY <1>4, <2>1, <2>2 DEF Open, GateState
<1>5. CASE Join \/ Return
  <2>1. ReadySet' = ReadySet /\ UNCHANGED <<wpc, go, abort, created, start, clock>>
    BY <1>5 DEF Join, Return, ReadySet
  <2>. QED
    BY <1>5, <2>1 DEF Join, Return, GateState
<1>6. ASSUME NEW w \in Workers, Worker(w) PROVE GateState'
  <2>1. UNCHANGED <<pc, go, abort, created, error, start, clock>>
    BY <1>6 DEF Worker, Ready, Wake, Work, Finish, Exit
  <2>2. go => ReadySet' = Workers
    <3>1. ReadySet' \subseteq Workers
      BY DEF ReadySet
    <3>. QED
      BY <1>6, <3>1, WorkerCounting DEF GateState
  <2>3. ~go => \A v \in Workers : wpc'[v] \notin {"work", "finish"}
    BY <1>6 DEF Worker, Ready, Wake, Work, Finish, Exit, GateState
  <2>4. ~go /\ ~abort => \A v \in Workers : wpc'[v] \notin {"leaving", "exited"}
    BY <1>6 DEF Worker, Ready, Wake, Work, Finish, Exit, GateState
  <2>. QED
    BY <2>1, <2>2, <2>3, <2>4 DEF GateState
<1>7. CASE Tick \/ SpuriousWake \/ Returned \/ UNCHANGED vars
  <2>1. UNCHANGED <<pc, wpc, go, abort, created, error, start>> /\ clock' >= clock
    BY <1>7 DEF Tick, SpuriousWake, Returned, vars
  <2>2. ReadySet' = ReadySet /\ clock' \in Nat
    BY <1>7, <2>1 DEF ReadySet, Tick, SpuriousWake, Returned, vars
  <2>. QED
    BY <2>1, <2>2 DEF GateState
<1>. QED
  BY <1>1, <1>2, <1>3, <1>4, <1>5, <1>6, <1>7 DEF Next, MainThread

\* Time stamps: the work of a worker starts after the gate opened, and the end
\* time is taken by the last worker, after all the others.
LEMMA StepTimes == IInv /\ [Next]_vars => Times'
<1> SUFFICES ASSUME IInv, [Next]_vars PROVE Times'
  OBVIOUS
<1>. USE NAssumption DEF IInv, TypeOK, gate
<1>1. CASE Create \/ Abort
  BY <1>1 DEF Create, Abort, Phases, Times
<1>2. CASE Created \/ GatherWait \/ Await \/ Join \/ Return
  BY <1>2 DEF Created, GatherWait, Await, Join, Return, Times
<1>3. CASE Open
  <2>1. \A w \in Workers : wpc[w] \notin {"work", "finish", "leaving", "exited"}
    BY <1>3 DEF Open, Phases, GateState
  <2>2. done = 0 /\ done' = done /\ wpc' = wpc
    BY <1>3 DEF Open, Phases, Counting
  <2>. QED
    BY <2>1, <2>2 DEF Times
<1>4. ASSUME NEW w \in Workers, Worker(w) PROVE Times'
  <2>1. CASE Ready(w)
    <3>1. ~go
      BY <2>1 DEF Ready, GateState, ReadySet
    <3>. QED
      BY <2>1, <3>1 DEF Ready, Times
  <2>2. CASE Wake(w)
    <3>1. UNCHANGED <<ended, end, done, go, abort, start, clock>>
      BY <2>2 DEF Wake
    <3>2. go => /\ wpc' = [wpc EXCEPT ![w] = "work"]
                /\ began' = [began EXCEPT ![w] = clock] /\ start <= clock
      BY <2>2 DEF Wake, Phases, GateState
    <3>. QED
      BY <3>1, <3>2 DEF Times
  <2>3. CASE Work(w)
    <3>1. go => done # N
      <4>1. go => w \notin DoneSet /\ DoneSet \subseteq Workers /\ done = Cardinality(DoneSet)
        BY <2>3 DEF Work, DoneSet, Counting
      <4>. QED
        BY <4>1, SetsFinite
    <3>2. UNCHANGED <<began, done, go, start, clock, end>>
      BY <2>3 DEF Work
    <3>3. /\ wpc' = [wpc EXCEPT ![w] = "finish"]
          /\ ended' = [ended EXCEPT ![w] = clock] /\ wpc[w] = "work"
      BY <2>3 DEF Work
    <3>. QED
      BY <3>1, <3>2, <3>3 DEF Times
  <2>4. CASE Finish(w)
    <3>1. go /\ UNCHANGED <<go, start, clock, began, ended>>
      BY <2>4 DEF Finish, GateState
    <3>2. wpc[w] = "finish" /\ wpc' = [wpc EXCEPT ![w] = "leaving"] /\ done' = done + 1
      BY <2>4 DEF Finish
    <3>3. done' = N => \A v \in Workers : ended[v] <= end'
      <4>1. DoneSet \subseteq Workers /\ w \notin DoneSet /\ done = Cardinality(DoneSet)
        BY <3>1, <3>2 DEF DoneSet, Counting
      <4>2. Cardinality(DoneSet \cup {w}) = done + 1
        BY <4>1, OneMore
      <4>3. done + 1 = N => DoneSet \cup {w} = Workers
        BY <4>1, <4>2, SetsFinite
      <4>4. done + 1 = N => end' = clock
        BY <2>4 DEF Finish
      <4>. QED
        BY <3>1, <3>2, <4>3, <4>4 DEF DoneSet, Times
    <3>. QED
      BY <3>1, <3>2, <3>3 DEF Times
  <2>5. CASE Exit(w)
    BY <2>5 DEF Exit, Times
  <2>. QED
    BY <1>4, <2>1, <2>2, <2>3, <2>4, <2>5 DEF Worker
<1>5. CASE Tick \/ SpuriousWake \/ Returned \/ UNCHANGED vars
  BY <1>5 DEF Tick, SpuriousWake, Returned, vars, Times
<1>. QED
  BY <1>1, <1>2, <1>3, <1>4, <1>5 DEF Next, MainThread

\* The invariant is inductive.
LEMMA StepIInv == IInv /\ [Next]_vars => IInv'
<1> SUFFICES ASSUME IInv, [Next]_vars PROVE IInv'
  OBVIOUS
<1>1. Counting'
  <2>1. CASE Tick \/ SpuriousWake \/ Returned \/ UNCHANGED vars
    <3>1. UNCHANGED <<wpc, created, ready, done, go>>
      BY <2>1 DEF Tick, SpuriousWake, Returned, vars, gate
    <3>. QED
      BY <3>1 DEF IInv, Counting, ReadySet, DoneSet
  <2>. QED
    BY <2>1, MainCounting, WorkerCounting DEF Next
<1>. QED
  BY <1>1, StepType, StepPhases, StepJoins, StepGateState, StepTimes DEF IInv

\* In every reachable state of the specification the invariant holds.
LEMMA Inductive == Spec => []IInv
BY InitIInv, StepIInv, PTL DEF Spec

\* measure() has returned: the loop over tids has passed every thread there is.
LEMMA AllJoined ==
  ASSUME IInv, pc = "returned", NEW w \in Workers
  PROVE  wpc[w] \in {"none", "exited"}
<1>1. w <= joined => wpc[w] = "exited"
  BY DEF IInv, Joins
<1>2. w > created => wpc[w] = "none"
  BY DEF IInv, Counting
<1>3. joined = created /\ joined \in 0..N /\ w \in Nat /\ N \in Nat
  BY NAssumption DEF IInv, Phases, TypeOK, Workers
<1>. QED
  BY <1>1, <1>2, <1>3

-----------------------------------------------------------------------------
\* For every number of threads: counted work runs only behind a gate that all
\* of them reached fit.
THEOREM WorkNeedsAllHolds == Spec => []WorkNeedsAll
<1>1. IInv => WorkNeedsAll
  <2> SUFFICES ASSUME IInv, NEW w \in Workers, wpc[w] \in {"work", "finish"}
               PROVE  /\ go /\ ~abort /\ ~error
                      /\ \A v \in Workers : wpc[v] \in {"parked", "work", "finish", "leaving", "exited"}
    BY DEF WorkNeedsAll
  <2>1. go /\ ~abort
    BY DEF IInv, Phases, GateState
  <2>2. pc # "returned"
    BY AllJoined
  <2>. QED
    BY <2>1, <2>2 DEF IInv, GateState, ReadySet
<1>. QED
  BY <1>1, Inductive, PTL

\* For every number of threads: an accepted sample spans every thread's work.
THEOREM SampleCoversWorkHolds == Spec => []SampleCoversWork
<1>1. IInv => SampleCoversWork
  <2> SUFFICES ASSUME IInv, pc = "returned", ~error, NEW w \in Workers
               PROVE  start <= began[w] /\ ended[w] <= end
    BY DEF SampleCoversWork
  <2>1. go
    BY DEF IInv, Phases
  <2>2. \A v \in Workers : wpc[v] = "exited"
    <3>1. \A v \in Workers : wpc[v] \in {"none", "exited"}
      BY AllJoined
    <3>. QED
      BY <2>1, <3>1 DEF IInv, GateState, ReadySet
  <2>3. DoneSet = Workers
    BY <2>2 DEF DoneSet
  <2>4. done = N
    BY <2>1, <2>3, NAssumption, FS_Interval DEF IInv, Counting, Workers
  <2>. QED
    BY <2>1, <2>2, <2>4 DEF IInv, Times
<1>. QED
  BY <1>1, Inductive, PTL

\* For every number of threads: when measure() returns, no thread can touch the
\* gate on its stack any more.  `created` counts the threads there are, the loop
\* has passed all of them, and it passes only threads that have ended.
THEOREM NoThreadOutlivesGateHolds == Spec => []NoThreadOutlivesGate
<1>1. IInv => NoThreadOutlivesGate
  BY AllJoined DEF NoThreadOutlivesGate
<1>. QED
  BY <1>1, Inductive, PTL
=============================================================================
